---- MODULE Spec2Model ----
(***************************************************************************)
(* offer: serve one file (or stdin) over HTTP for a bounded number of      *)
(* requests, then shut down.                                               *)
(*                                                                         *)
(* The repository holds several revisions of the program.  Two revisions   *)
(* of the request admission gate and of the shutdown coordinator are       *)
(* modelled side by side and selected by the variable "variant":           *)
(*   "limitNReqs"  run() with limitNReqs: mutex + sync.Once + close(done)  *)
(*   "limitReqs"   main() with limitReqs: per-method gate, deferred send   *)
(*                 on the unbuffered channel done                          *)
(* Every request handler is cut into its atomic steps at the points where  *)
(* it takes or releases the gate's mutex or blocks on a channel.           *)
(***************************************************************************)
EXTENDS Integers, FiniteSets, Sequences, TLC

\* Bounds of the model.
MaxReqs == 3        \* number of HTTP requests that may arrive during a run
MaxN == 2           \* largest value of the -n flag explored
MaxSumReqs == 3     \* number of checksum requests that may arrive
PayloadLen == 1     \* length of the payload, in chunks read by io.Copy
MaxAllReqs == 2     \* requests that may arrive when /checksums/ is examined
MaxLen == 3         \* longest input of the resolver, in bytes
MaxBuf == 2         \* largest value of the -b flag explored
MaxStopReqs == 2    \* requests that may arrive when the end of run is examined
MaxMethodReqs == 2  \* requests that may arrive when the methods are examined
MaxUps == 2         \* upload requests that may arrive in receive mode
MaxParts == 1       \* most parts of one multipart body
MaxLinks == 3       \* names safeRename tries; stands for math.MaxInt32 - 1
MaxStr == 4         \* longest argument of parseUserPass, in characters
MaxChainReqs == 2   \* requests that may arrive when the handler chain is examined

Reqs == 1..MaxReqs
Ups == 1..MaxUps
NoReq == 0

VARIABLES
    variant,    \* which revision of gate and coordinator runs
    mode,       \* "offer", "receive" (flag -r) or "stream" (flag -s)
    nreqs,      \* value of the -n flag
    timeout,    \* value of the -t flag: 0 (none) or 1 (some duration)
    n,          \* the gate's remaining count (captured variable n)
    mu,         \* sync.Mutex of the gate: NoReq when free, else the holder
    once,       \* sync.Once of limitNReqs: TRUE once its function has run
    done,       \* limitNReqs: TRUE when the channel done has been closed
    fires,      \* history: number of times the exhaustion signal was issued
    firer,      \* history: the request whose step issued the signal
    pc,         \* position of each request's handler goroutine
    method,     \* HTTP method of each request
    via,        \* history: how the gate decided each request
    seen,       \* history: value of n each request found at the gate
    deferred,   \* limitReqs: requests that registered the deferred send
    resp,       \* response written for each request
    sig,        \* TRUE when a signal is buffered in the signal channel
    timer,      \* "off", "armed", "fired" (value in timer.C) or "read"
    cause,      \* which select case started the shutdown
    gpc,        \* position of the shutdown goroutine
    mpc,        \* position of the main goroutine
    waitConns,  \* run(): TRUE when the channel waitConns has been closed
    \* the checksum endpoint
    rev,        \* which revision of the checksum endpoint runs
    origin,     \* where the payload lives: "memory" or "disk"
    readable,   \* TRUE while the payload's disk file can be opened and read
    sumOnce,    \* sendChecksum: state of each handler's sync.Once
    sum,        \* sendChecksum: each handler's captured variable sum
    cache,      \* checksums: the sync.Map from algorithm name to line
    spc,        \* position of each checksum request
    salgo,      \* the name each checksum request asks for
    hpos,       \* chunks of the payload fed to each request's hash so far
    line,       \* checksums: each request's local fmtSum
    sresp,      \* response written for each checksum request
    prior,      \* history: requests already answered when this one arrived
    attempted,  \* history: requests that tried to open the payload
    failed,     \* history: requests whose own computation hit an I/O error
    computed,   \* history: digests completed (h.Sum reached) per algorithm
    \* the request for all algorithms
    apos,       \* checksums: each request's position in the sorted names
    acomp,      \* history: <<request, algorithm>> computed in that loop
    ahit,       \* history: <<request, algorithm>> taken from the cache there
    \* the payload resolver
    rrev,       \* which revision of the resolver runs
    caller,     \* who reads: "stdin", "file", "dir", or "probe" (tryReadAll
                \* called on a reader of its own, as the test does)
    flagStream, \* value of the -s flag
    bufSize,    \* value of the -b flag, the argument of tryReadAll
    inLen,      \* length of the input; its bytes are 1, 2, ..., inLen
    eofWithData,\* TRUE when the reader returns its last byte and io.EOF in
                \* the same call of Read
    rd,         \* number of bytes read from the input so far
    buf,        \* tryReadAll: buf[:n]
    extra,      \* history: n2 and err of the one further read
    perr,       \* the error tryReadAll returned, "none" before it returns
    rpc,        \* position of the resolver
    tmp,        \* content of the temporary file
    tmpState,   \* "none", "open", "kept" or "removed"
    pl,         \* the payload the resolver returned
    rerr,       \* the error the resolver returned
    made,       \* history: which kind of payload the resolver built
    rsrc,       \* what reader() / copyTo read from
    \* the end of run()
    flagKeep,   \* value of the -k flag
    f,          \* the payload run serves: path, name, isTemp
    disk,       \* paths of the temporary files that exist
    rmPath,     \* history: the path run gave to os.Remove, <<>> if none
    ret,        \* what run returned: "none" while it runs, "nil", "listen"
                \* (the error of ListenAndServe) or "remove" (of os.Remove)
    \* receive mode
    fpath,      \* destination: <<"-">> (standard output), <<"@">> or a name
    files,      \* the directory: the content of each file that exists
    stdout,     \* what has been written to standard output
    upc,        \* position of each upload's handler
    umethod,    \* HTTP method of each upload request
    body,       \* each upload's request body
    pos,        \* number of parts each handler has read
    partfname,  \* each handler's local partfname
    newpath,    \* safeRename: the argument newpath
    rfpath,     \* safeRename: the local fpath, the name tried next
    ri,         \* safeRename: the loop counter i
    placed,     \* history: the name each upload was linked under
    ustatus,    \* status written for each upload request
    uerr,       \* errors each handler has printed
    \* basic authentication
    flagUserPass, \* value of the -u flag
    cred,       \* what parseUserPass returned: user, pass, err
    \* the handler chain of run()
    rpath,      \* URL path of each request
    rcred       \* what r.BasicAuth() returns for each request

gateVars == <<variant, mode, nreqs, timeout, n, mu, once, done, fires, firer,
              pc, method, via, seen, deferred, resp, sig, timer, cause, gpc,
              mpc, waitConns>>

sumVars == <<rev, origin, readable, sumOnce, sum, cache, spc, salgo, hpos,
             line, sresp, prior, attempted, failed, computed>>

aggVars == <<apos, acomp, ahit>>

resVars == <<rrev, caller, flagStream, bufSize, inLen, eofWithData, rd, buf,
             extra, perr, rpc, tmp, tmpState, pl, rerr, made, rsrc>>

stopVars == <<flagKeep, f, disk, rmPath, ret>>

recvVars == <<fpath, files, stdout, upc, umethod, body, pos, partfname,
              newpath, rfpath, ri, placed, ustatus, uerr>>

authVars == <<flagUserPass, cred>>

chainVars == <<rpath, rcred>>

extVars == <<stopVars, recvVars, authVars, chainVars>>

vars == <<gateVars, sumVars, aggVars, resVars, extVars>>

----------------------------------------------------------------------------
\* Configuration

\* main(): limitReqs("POST", 1, ...) in receive mode, limitReqs("GET", n, ...)
\* otherwise.
GateMethod == IF mode = "receive" THEN "POST" ELSE "GET"

GateBudgetFromFlag == nreqs

\* main(): the budget handed to limitReqs.
GateBudget == IF mode = "receive" THEN 1 ELSE nreqs

RunBudgetFromFlag == nreqs

\* run(): "if f.isStream { *flagNReqs = 1 }" before limitNReqs(*flagNReqs,
\* done, ...) is built: the budget handed to limitNReqs.
RunBudget == IF mode = "stream" THEN 1 ELSE nreqs

UnlimitedNever(k) == FALSE

\* limitNReqs: "if n == 0 { return h }", 0 means unlimited requests.
Unlimited(k) == k = 0

ExhaustedNever(k) == FALSE

\* the gate's test "if n == 0" inside the critical section.
Exhausted(k) == k = 0

ReachedZeroAlways(k) == TRUE

ReachedZeroNever(k) == FALSE

\* the test "if n == 0" that decides whether the exhaustion signal is due:
\* after the handler in limitNReqs, right after "n--" in limitReqs.
ReachedZero(k) == k = 0

DecrementSkipped(k) == k

\* the gate's "n--".
Decrement(k) == k - 1

UnlockSkipped(r) == r

\* mu.Unlock() by the goroutine of request r: the mutex is free again.
Unlock(r) == NoReq

BypassesNever(m) == FALSE

\* limitReqs: "if r.Method != method" forwards without looking at n.
Bypasses(m) == m # GateMethod

\* The request methods explored.  limitNReqs and sendFile never look at the
\* method, so one method stands for all of them in that revision; offer
\* tells GET from the rest, receive tells GET, POST and the rest apart.
Methods ==
    IF variant = "limitNReqs" THEN {"GET"}
    ELSE IF mode = "offer" THEN {"GET", "POST"}
    ELSE {"GET", "POST", "PUT"}

\* The process is running (main has not returned).
Alive == mpc # "exit"

BeforeShutdownOrDuring ==
    {"newtimer", "stoptimer", "drain", "select", "shutdown"}

\* run(): positions of the goroutine before it calls srv.Shutdown: creating
\* the timer, stopping it, draining its channel, blocked in the select.
BeforeShutdown == {"newtimer", "stoptimer", "drain", "select"}

\* srv.Serve is accepting connections: Shutdown has not been called.
Listening == mpc = "serve" /\ gpc \in BeforeShutdown

\* Requests whose handler has been entered and has not returned.
Active == {r \in Reqs : pc[r] \notin {"new", "done"}}

\* Requests forwarded to the wrapped handler.
Forwarded == {r \in Reqs : via[r] \in {"pass", "bypass", "admit"}}

SumReqs == 1..MaxSumReqs

\* var hashes: the four supported algorithms.
Algos == {"md5", "sha1", "sha256", "sha512"}

\* a name that is not a key of hashes
UnknownAlgo == "crc32"

Names == Algos \cup {UnknownAlgo}

\* the path /checksums/: after http.StripPrefix the name is the empty string
AllAlgos == ""

\* the path /checksums, without the slash
NoSlash == "/checksums"

\* The paths of the checksum endpoint, as the name that follows /checksums/.
Paths == Names \cup {AllAlgos, NoSlash}

\* The keys the sync.Map of checksums can hold.
Keys == Names \cup {AllAlgos}

\* no formatted line: the empty string
NoLine == <<>>

NoResp == [status |-> "none", body |-> NoLine]

\* The checksum endpoint before any request.
InitSumVars ==
    /\ readable = TRUE
    /\ sumOnce = [a \in Algos |-> "fresh"]
    /\ sum = [a \in Algos |-> NoLine]
    /\ cache = [a \in Keys |-> NoLine]
    /\ spc = [c \in SumReqs |-> "new"]
    /\ salgo = [c \in SumReqs |-> UnknownAlgo]
    /\ hpos = [c \in SumReqs |-> 0]
    /\ line = [c \in SumReqs |-> NoLine]
    /\ sresp = [c \in SumReqs |-> NoResp]
    /\ prior = [c \in SumReqs |-> {}]
    /\ attempted = {}
    /\ failed = {}
    /\ computed = [a \in Algos |-> 0]
    /\ apos = [c \in SumReqs |-> 0]
    /\ acomp = {}
    /\ ahit = {}

\* no payload: the zero value of the struct
NoPayload ==
    [path |-> "", buf |-> <<>>, isBuffered |-> FALSE, isTemp |-> FALSE,
     isStream |-> FALSE]

\* no further read has been made
NoExtra == [n2 |-> -1, err |-> "none"]

\* A payload that is no temporary file.
NoFile == [path |-> <<"-">>, name |-> <<"offer-0">>, isTemp |-> FALSE]

\* The end of run(), left aside.
InitStopIdle ==
    /\ flagKeep = FALSE /\ f = NoFile /\ disk = {} /\ rmPath = <<>>
    /\ ret = "none"

\* A request whose body has not been seen.
NoBody == [parts |-> <<>>, end |-> "none"]

\* No file.
NoFiles == [x \in {} |-> <<>>]

\* Receive mode, left aside.
InitRecvIdle ==
    /\ fpath = <<"-">> /\ files = NoFiles /\ stdout = <<>>
    /\ upc = [u \in Ups |-> "new"]
    /\ umethod = [u \in Ups |-> "none"]
    /\ body = [u \in Ups |-> NoBody]
    /\ pos = [u \in Ups |-> 0]
    /\ partfname = [u \in Ups |-> <<>>]
    /\ newpath = [u \in Ups |-> <<>>]
    /\ rfpath = [u \in Ups |-> <<>>]
    /\ ri = [u \in Ups |-> 0]
    /\ placed = [u \in Ups |-> <<>>]
    /\ ustatus = [u \in Ups |-> "none"]
    /\ uerr = [u \in Ups |-> {}]

\* What parseUserPass has returned before it is called.
NoCred == [user |-> <<>>, pass |-> <<>>, err |-> "none"]

\* Basic authentication, left aside.
InitAuthIdle == flagUserPass = <<>> /\ cred = NoCred

\* A request without an Authorization header.
NoBasicAuth == [user |-> <<>>, pass |-> <<>>, ok |-> FALSE]

\* The handler chain, left aside.
InitChainIdle ==
    /\ rpath = [r \in Reqs |-> "/"]
    /\ rcred = [r \in Reqs |-> NoBasicAuth]

InitExtIdle == InitRecvIdle /\ InitAuthIdle /\ InitChainIdle

\* The resolver, left aside while the server is examined.
InitResIdle ==
    /\ InitStopIdle
    /\ rrev = "none" /\ caller = "none" /\ flagStream = FALSE
    /\ bufSize = 0 /\ inLen = 0 /\ eofWithData = FALSE
    /\ rd = 0 /\ buf = <<>> /\ extra = NoExtra /\ perr = "none"
    /\ rpc = "idle" /\ tmp = <<>> /\ tmpState = "none"
    /\ pl = NoPayload
    /\ rerr = "none" /\ made = "none" /\ rsrc = "none"

InitGate ==
    /\ rev = "none" /\ origin = "memory" /\ InitSumVars
    /\ InitResIdle
    /\ InitExtIdle
    /\ variant \in {"limitNReqs", "limitReqs"}
    /\ nreqs \in 0..MaxN
    /\ mode \in {"offer", "receive"}
    /\ timeout \in {0, 1}
    \* run() has no receive mode; main() has no timeout flag and dies with
    \* "can't receive more than one file" when -r comes with -n > 1.
    /\ variant = "limitNReqs" => mode = "offer"
    /\ variant = "limitReqs" => timeout = 0 /\ (mode = "receive" => nreqs <= 1)
    /\ n = IF variant = "limitReqs" THEN GateBudget ELSE RunBudget
    /\ mu = NoReq
    /\ once = FALSE
    /\ done = FALSE
    /\ fires = 0
    /\ firer = NoReq
    /\ pc = [r \in Reqs |-> "new"]
    /\ method = [r \in Reqs |-> "GET"]
    /\ via = [r \in Reqs |-> "none"]
    /\ seen = [r \in Reqs |-> -1]
    /\ deferred = {}
    /\ resp = [r \in Reqs |-> "none"]
    /\ sig = FALSE
    /\ timer = IF timeout = 0 THEN "off" ELSE "armed"
    /\ cause = "none"
    /\ gpc = "select"
    /\ mpc = "serve"
    /\ waitConns = FALSE

----------------------------------------------------------------------------
\* Requests

\* A connection is accepted and its request read: the handler chain starts.
\* Requests are interchangeable, so they are numbered in order of arrival.
Arrive(r, m) ==
    /\ Alive /\ Listening
    /\ pc[r] = "new"
    /\ \A q \in Reqs : q < r => pc[q] # "new"
    /\ method' = [method EXCEPT ![r] = m]
    /\ pc' = [pc EXCEPT ![r] = "enter"]
    /\ UNCHANGED <<extVars, resVars, aggVars, sumVars, variant, mode, nreqs, timeout, n, mu, once, done, fires,
                   firer, via, seen, deferred, resp, sig, timer, cause, gpc,
                   mpc, waitConns>>

\* limitNReqs with n == 0 returns h itself: the request goes straight to h.
limitNReqsPass(r) ==
    /\ Alive /\ variant = "limitNReqs" /\ Unlimited(RunBudget)
    /\ pc[r] = "enter"
    /\ via' = [via EXCEPT ![r] = "pass"]
    /\ pc' = [pc EXCEPT ![r] = "handler"]
    /\ UNCHANGED <<extVars, resVars, aggVars, sumVars, variant, mode, nreqs, timeout, n, mu, once, done, fires,
                   firer, method, seen, deferred, resp, sig, timer, cause,
                   gpc, mpc, waitConns>>

\* limitNReqs: the first mu.Lock().
limitNReqsLock(r) ==
    /\ Alive /\ variant = "limitNReqs" /\ ~Unlimited(RunBudget)
    /\ pc[r] = "enter"
    /\ mu = NoReq
    /\ mu' = r
    /\ pc' = [pc EXCEPT ![r] = "crit1"]
    /\ UNCHANGED <<extVars, resVars, aggVars, sumVars, variant, mode, nreqs, timeout, n, once, done, fires, firer,
                   method, via, seen, deferred, resp, sig, timer, cause, gpc,
                   mpc, waitConns>>

\* limitNReqs: "if n == 0 { mu.Unlock(); 503 }" else "n--; mu.Unlock()".
limitNReqsAdmit(r) ==
    /\ Alive /\ variant = "limitNReqs"
    /\ pc[r] = "crit1"
    /\ mu = r
    /\ seen' = [seen EXCEPT ![r] = n]
    /\ IF Exhausted(n)
         THEN /\ via' = [via EXCEPT ![r] = "reject"]
              /\ pc' = [pc EXCEPT ![r] = "reject"]
              /\ n' = n
         ELSE /\ via' = [via EXCEPT ![r] = "admit"]
              /\ pc' = [pc EXCEPT ![r] = "handler"]
              /\ n' = Decrement(n)
    /\ mu' = Unlock(r)
    /\ UNCHANGED <<extVars, resVars, aggVars, sumVars, variant, mode, nreqs, timeout, once, done, fires, firer,
                   method, deferred, resp, sig, timer, cause, gpc, mpc,
                   waitConns>>

\* httpSendError(w, nil, 503) / sendStatusPage(w, 503), after the unlock.
Reject(r) ==
    /\ Alive
    /\ pc[r] = "reject"
    /\ resp' = [resp EXCEPT ![r] = "503"]
    /\ pc' = [pc EXCEPT ![r] = "done"]
    /\ UNCHANGED <<extVars, resVars, aggVars, sumVars, variant, mode, nreqs, timeout, n, mu, once, done, fires,
                   firer, method, via, seen, deferred, sig, timer, cause, gpc,
                   mpc, waitConns>>

\* The responses the wrapped handler can write for request r:
\*   run():  sendFile: 500 when the reader cannot be opened, else the file;
\*   main(): offer: 405 unless GET, 500 when os.Open fails, else the file;
\*           receive: GET gets the upload page, POST 200/400/500, else 405.
HandlerResp(r) ==
    IF variant = "limitNReqs" THEN {"200", "500"}
    ELSE IF mode = "offer"
           THEN IF method[r] # "GET" THEN {"405"} ELSE {"200", "500"}
           ELSE IF method[r] = "GET" THEN {"page"}
                ELSE IF method[r] # "POST" THEN {"405"}
                ELSE {"200", "400", "500"}

\* Where a request continues when the wrapped handler has returned.
AfterHandler(r) ==
    IF variant = "limitNReqs"
      THEN IF via[r] = "admit" THEN "lock2" ELSE "done"
      ELSE IF r \in deferred THEN "send" ELSE "done"

\* h.ServeHTTP(w, r) / next.ServeHTTP(w, r): the wrapped handler runs and
\* returns.  No gate state is touched and the mutex is not held.
Handle(r, out) ==
    /\ Alive
    /\ pc[r] = "handler"
    /\ out \in HandlerResp(r)
    /\ resp' = [resp EXCEPT ![r] = out]
    /\ pc' = [pc EXCEPT ![r] = AfterHandler(r)]
    /\ UNCHANGED <<extVars, resVars, aggVars, sumVars, variant, mode, nreqs, timeout, n, mu, once, done, fires,
                   firer, method, via, seen, deferred, sig, timer, cause, gpc,
                   mpc, waitConns>>

\* limitNReqs: the second mu.Lock(), after the handler.
limitNReqsRelock(r) ==
    /\ Alive /\ variant = "limitNReqs"
    /\ pc[r] = "lock2"
    /\ mu = NoReq
    /\ mu' = r
    /\ pc' = [pc EXCEPT ![r] = "crit2"]
    /\ UNCHANGED <<extVars, resVars, aggVars, sumVars, variant, mode, nreqs, timeout, n, once, done, fires, firer,
                   method, via, seen, deferred, resp, sig, timer, cause, gpc,
                   mpc, waitConns>>

\* limitNReqs: "if n == 0 { once.Do(func() { close(done) }) }; mu.Unlock()".
limitNReqsCheck(r) ==
    /\ Alive /\ variant = "limitNReqs"
    /\ pc[r] = "crit2"
    /\ mu = r
    /\ IF ReachedZero(n) /\ ~once
         THEN /\ once' = TRUE
              /\ done' = TRUE
              /\ fires' = fires + 1
              /\ firer' = r
         ELSE UNCHANGED <<once, done, fires, firer>>
    /\ mu' = Unlock(r)
    /\ pc' = [pc EXCEPT ![r] = "done"]
    /\ UNCHANGED <<extVars, resVars, aggVars, sumVars, variant, mode, nreqs, timeout, n, method, via, seen,
                   deferred, resp, sig, timer, cause, gpc, mpc, waitConns>>

\* limitReqs: "if r.Method != method { next.ServeHTTP(w, r); return }".
limitReqsBypass(r) ==
    /\ Alive /\ variant = "limitReqs"
    /\ pc[r] = "enter"
    /\ Bypasses(method[r])
    /\ via' = [via EXCEPT ![r] = "bypass"]
    /\ seen' = [seen EXCEPT ![r] = n]
    /\ pc' = [pc EXCEPT ![r] = "handler"]
    /\ UNCHANGED <<extVars, resVars, aggVars, sumVars, variant, mode, nreqs, timeout, n, mu, once, done, fires,
                   firer, method, deferred, resp, sig, timer, cause, gpc, mpc,
                   waitConns>>

\* limitReqs: mu.Lock().
limitReqsLock(r) ==
    /\ Alive /\ variant = "limitReqs"
    /\ pc[r] = "enter"
    /\ ~Bypasses(method[r])
    /\ mu = NoReq
    /\ mu' = r
    /\ pc' = [pc EXCEPT ![r] = "crit1"]
    /\ UNCHANGED <<extVars, resVars, aggVars, sumVars, variant, mode, nreqs, timeout, n, once, done, fires, firer,
                   method, via, seen, deferred, resp, sig, timer, cause, gpc,
                   mpc, waitConns>>

\* limitReqs: "if n == 0 { mu.Unlock(); 503 }" else
\* "n--; if n == 0 { defer func() { done <- true }() }; mu.Unlock()".
limitReqsAdmit(r) ==
    /\ Alive /\ variant = "limitReqs"
    /\ pc[r] = "crit1"
    /\ mu = r
    /\ seen' = [seen EXCEPT ![r] = n]
    /\ IF Exhausted(n)
         THEN /\ via' = [via EXCEPT ![r] = "reject"]
              /\ pc' = [pc EXCEPT ![r] = "reject"]
              /\ UNCHANGED <<n, deferred>>
         ELSE /\ via' = [via EXCEPT ![r] = "admit"]
              /\ pc' = [pc EXCEPT ![r] = "handler"]
              /\ n' = Decrement(n)
              /\ deferred' = IF ReachedZero(Decrement(n)) THEN deferred \cup {r}
                                                   ELSE deferred
    /\ mu' = Unlock(r)
    /\ UNCHANGED <<extVars, resVars, aggVars, sumVars, variant, mode, nreqs, timeout, once, done, fires, firer,
                   method, resp, sig, timer, cause, gpc, mpc, waitConns>>

----------------------------------------------------------------------------
\* Environment: signals and the timer

\* SIGINT or SIGTERM is delivered: signal.Notify puts it in the channel of
\* capacity 1 (a signal that finds the channel full is dropped).  Once the
\* select has returned nothing reads the channel any more, so later signals
\* change nothing the program can observe and are left out.
Signal ==
    /\ Alive
    /\ gpc = "select"
    /\ ~sig
    /\ sig' = TRUE
    /\ UNCHANGED <<extVars, resVars, aggVars, sumVars, variant, mode, nreqs, timeout, n, mu, once, done, fires,
                   firer, pc, method, via, seen, deferred, resp, timer, cause,
                   gpc, mpc, waitConns>>

\* run(): the timer of a non-zero -t expires and its value sits in timer.C.
TimerExpire ==
    /\ Alive
    /\ gpc \in {"stoptimer", "select"}
    /\ timer = "armed"
    /\ timer' = "fired"
    /\ UNCHANGED <<extVars, resVars, aggVars, sumVars, variant, mode, nreqs, timeout, n, mu, once, done, fires,
                   firer, pc, method, via, seen, deferred, resp, sig, cause,
                   gpc, mpc, waitConns>>

----------------------------------------------------------------------------
\* Shutdown coordinator

\* run(): the goroutine's select over sigch, timer.C and done; the chosen
\* case is followed by the call of srv.Shutdown, which closes the listener.
runSelect(c) ==
    /\ Alive /\ variant = "limitNReqs"
    /\ gpc = "select"
    /\ \/ c = "sig" /\ sig
       \/ c = "timeout" /\ timer = "fired"
       \/ c = "done" /\ done
    /\ cause' = c
    /\ sig' = IF c = "sig" THEN FALSE ELSE sig
    /\ timer' = IF c = "timeout" THEN "read" ELSE timer
    /\ gpc' = "shutdown"
    /\ UNCHANGED <<extVars, resVars, aggVars, sumVars, variant, mode, nreqs, timeout, n, mu, once, done, fires,
                   firer, pc, method, via, seen, deferred, resp, mpc,
                   waitConns>>

\* main(): the goroutine's select takes the case <-sig.
mainSelectSig ==
    /\ Alive /\ variant = "limitReqs"
    /\ gpc = "select"
    /\ sig
    /\ cause' = "sig"
    /\ sig' = FALSE
    /\ gpc' = "shutdown"
    /\ UNCHANGED <<extVars, resVars, aggVars, sumVars, variant, mode, nreqs, timeout, n, mu, once, done, fires,
                   firer, pc, method, via, seen, deferred, resp, timer, mpc,
                   waitConns>>

\* main(): the deferred "done <- true" of request r meets the goroutine's
\* select case <-done (done is unbuffered: send and receive are one step).
mainSelectDone(r) ==
    /\ Alive /\ variant = "limitReqs"
    /\ gpc = "select"
    /\ pc[r] = "send"
    /\ cause' = "done"
    /\ gpc' = "shutdown"
    /\ fires' = fires + 1
    /\ firer' = r
    /\ pc' = [pc EXCEPT ![r] = "done"]
    /\ UNCHANGED <<extVars, resVars, aggVars, sumVars, variant, mode, nreqs, timeout, n, mu, once, done, method,
                   via, seen, deferred, resp, sig, timer, mpc, waitConns>>

\* srv.Serve / srv.ListenAndServe returns ErrServerClosed once Shutdown has
\* been called.
ServeReturn ==
    /\ Alive
    /\ mpc \in {"listen", "serve"}
    /\ gpc \notin BeforeShutdown
    /\ mpc' = "wait"
    /\ UNCHANGED <<extVars, resVars, aggVars, sumVars, variant, mode, nreqs, timeout, n, mu, once, done, fires,
                   firer, pc, method, via, seen, deferred, resp, sig, timer,
                   cause, gpc, waitConns>>

ConnsIdleAlways == TRUE

\* srv.Shutdown polls until no connection is serving a request.
ConnsIdle == Active = {}

\* srv.Shutdown(context.Background()) returns: every connection is idle.
ShutdownReturn ==
    /\ Alive
    /\ gpc = "shutdown"
    /\ ConnsIdle
    /\ gpc' = "notify"
    /\ UNCHANGED <<extVars, resVars, aggVars, sumVars, variant, mode, nreqs, timeout, n, mu, once, done, fires,
                   firer, pc, method, via, seen, deferred, resp, sig, timer,
                   cause, mpc, waitConns>>

\* run(): close(waitConns).
runCloseWaitConns ==
    /\ Alive /\ variant = "limitNReqs"
    /\ gpc = "notify"
    /\ waitConns' = TRUE
    /\ gpc' = "end"
    /\ UNCHANGED <<extVars, resVars, aggVars, sumVars, variant, mode, nreqs, timeout, n, mu, once, done, fires,
                   firer, pc, method, via, seen, deferred, resp, sig, timer,
                   cause, mpc>>

StopsTimerNever == FALSE

\* run(): "*flagTimeout == 0", the test that guards timer.Stop().
StopsTimer == timeout = 0

\* run(): timer := time.NewTimer(*flagTimeout).
runNewTimer ==
    /\ Alive /\ variant = "limitNReqs"
    /\ gpc = "newtimer"
    /\ timer' = "armed"
    /\ gpc' = "stoptimer"
    /\ UNCHANGED <<extVars, resVars, aggVars, sumVars, variant, mode, nreqs, timeout, n, mu, once, done, fires,
                   firer, pc, method, via, seen, deferred, resp, sig,
                   cause, mpc, waitConns>>

\* run(): "if *flagTimeout == 0 && !timer.Stop()".  Stop returns true when
\* the timer had not expired; when it had, Stop returns false and the
\* value is to be received, or (a runtime with synchronous timer
\* channels) it discards the value and returns true.
runStopTimer(stopped) ==
    /\ Alive /\ variant = "limitNReqs"
    /\ gpc = "stoptimer"
    /\ timer = "armed" => stopped
    /\ IF StopsTimer
         THEN IF stopped
                THEN timer' = "off" /\ gpc' = "select"
                ELSE gpc' = "drain" /\ UNCHANGED timer
         ELSE gpc' = "select" /\ UNCHANGED timer
    /\ UNCHANGED <<extVars, resVars, aggVars, sumVars, variant, mode, nreqs, timeout, n, mu, once, done, fires,
                   firer, pc, method, via, seen, deferred, resp, sig,
                   cause, mpc, waitConns>>

\* run(): "<-timer.C" takes the value of the expired timer.
runDrainTimer ==
    /\ Alive /\ variant = "limitNReqs"
    /\ gpc = "drain"
    /\ timer = "fired"
    /\ timer' = "read"
    /\ gpc' = "select"
    /\ UNCHANGED <<extVars, resVars, aggVars, sumVars, variant, mode, nreqs, timeout, n, mu, once, done, fires,
                   firer, pc, method, via, seen, deferred, resp, sig,
                   cause, mpc, waitConns>>

\* The path run gives to os.Remove: f.path in offer.go, f.name in the
\* revision of part_000 whose payload is a "file", of.name in part_002.
RemovePath == IF rrev \in {"part_000", "part_002"} THEN f.name ELSE f.path

\* run(): "f.isTemp && !*flagKeep"; part_002 has no flag -k.
RemovesTemp ==
    IF rrev = "part_002" THEN f.isTemp ELSE f.isTemp /\ ~flagKeep

\* os.Remove(p) succeeds when the file exists and the system lets it go.
Removed(p, ok) == ok /\ p \in disk

\* run() returns the error of os.Remove; the deferred os.Remove of
\* part_002 drops it.
RemoveErr(p, ok) ==
    IF Removed(p, ok) \/ rrev = "part_002" THEN "nil" ELSE "remove"

\* srv.ListenAndServe: the listener is opened (ok) or the call fails and
\* run returns its error; the deferred os.Remove of part_002 runs then.
\* Once Shutdown has been called the call returns ErrServerClosed.
ListenAndServe(ok, rm) ==
    /\ Alive /\ variant = "limitNReqs"
    /\ mpc = "listen"
    /\ gpc \in BeforeShutdown
    /\ IF ok
         THEN /\ mpc' = "serve"
              /\ UNCHANGED <<disk, rmPath, ret>>
         ELSE /\ mpc' = "exit"
              /\ ret' = "listen"
              /\ IF rrev = "part_002" /\ RemovesTemp
                   THEN /\ rmPath' = RemovePath
                        /\ disk' = IF Removed(RemovePath, rm)
                                     THEN disk \ {RemovePath} ELSE disk
                   ELSE UNCHANGED <<disk, rmPath>>
    /\ UNCHANGED <<resVars, aggVars, sumVars, variant, mode, nreqs, timeout, n, mu, once, done, fires,
                   firer, pc, method, via, seen, deferred, resp, sig, timer,
                   cause, gpc, waitConns, flagKeep, f, recvVars, authVars,
                   chainVars>>

\* run(): "<-waitConns", then the temporary file is removed when it is to
\* be, run returns and the process exits.
runWaitConns(ok) ==
    /\ Alive /\ variant = "limitNReqs"
    /\ mpc = "wait"
    /\ waitConns
    /\ mpc' = "exit"
    /\ IF RemovesTemp
         THEN /\ rmPath' = RemovePath
              /\ disk' = IF Removed(RemovePath, ok)
                           THEN disk \ {RemovePath} ELSE disk
              /\ ret' = RemoveErr(RemovePath, ok)
         ELSE /\ ret' = "nil"
              /\ UNCHANGED <<disk, rmPath>>
    /\ UNCHANGED <<resVars, aggVars, sumVars, variant, mode, nreqs, timeout, n, mu, once, done, fires,
                   firer, pc, method, via, seen, deferred, resp, sig, timer,
                   cause, gpc, waitConns, flagKeep, f, recvVars, authVars,
                   chainVars>>

\* main(): the goroutine's "done <- true" meets main's "<-done"; main
\* returns and the process exits.
mainSendDone ==
    /\ Alive /\ variant = "limitReqs"
    /\ gpc = "notify"
    /\ mpc = "wait"
    /\ gpc' = "end"
    /\ mpc' = "exit"
    /\ UNCHANGED <<extVars, resVars, aggVars, sumVars, variant, mode, nreqs, timeout, n, mu, once, done, fires,
                   firer, pc, method, via, seen, deferred, resp, sig, timer,
                   cause, waitConns>>

\* main(): the deferred "done <- true" of request r meets main's "<-done".
mainRecvHandler(r) ==
    /\ Alive /\ variant = "limitReqs"
    /\ mpc = "wait"
    /\ pc[r] = "send"
    /\ mpc' = "exit"
    /\ fires' = fires + 1
    /\ firer' = r
    /\ pc' = [pc EXCEPT ![r] = "done"]
    /\ UNCHANGED <<extVars, resVars, aggVars, sumVars, variant, mode, nreqs, timeout, n, mu, once, done, method,
                   via, seen, deferred, resp, sig, timer, cause, gpc,
                   waitConns>>

----------------------------------------------------------------------------

\* run() with limitNReqs.
NextRun ==
    \/ \E r \in Reqs :
          \/ \E m \in Methods : variant = "limitNReqs" /\ Arrive(r, m)
          \/ limitNReqsPass(r)
          \/ limitNReqsLock(r)
          \/ limitNReqsAdmit(r)
          \/ variant = "limitNReqs" /\ Reject(r)
          \/ \E out \in HandlerResp(r) :
                variant = "limitNReqs" /\ Handle(r, out)
          \/ limitNReqsRelock(r)
          \/ limitNReqsCheck(r)
    \/ \E c \in {"sig", "timeout", "done"} : runSelect(c)
    \/ variant = "limitNReqs" /\ ServeReturn
    \/ variant = "limitNReqs" /\ ShutdownReturn
    \/ runCloseWaitConns
    \/ \E ok \in BOOLEAN : runWaitConns(ok)
    \/ variant = "limitNReqs" /\ Signal
    \/ TimerExpire

\* main() with limitReqs.
NextMain ==
    \/ \E r \in Reqs :
          \/ \E m \in Methods : variant = "limitReqs" /\ Arrive(r, m)
          \/ limitReqsBypass(r)
          \/ limitReqsLock(r)
          \/ limitReqsAdmit(r)
          \/ variant = "limitReqs" /\ Reject(r)
          \/ \E out \in HandlerResp(r) :
                variant = "limitReqs" /\ Handle(r, out)
          \/ mainSelectDone(r)
          \/ mainRecvHandler(r)
    \/ mainSelectSig
    \/ variant = "limitReqs" /\ ServeReturn
    \/ variant = "limitReqs" /\ ShutdownReturn
    \/ mainSendDone
    \/ variant = "limitReqs" /\ Signal

Next == NextRun \/ NextMain

Spec == InitGate /\ [][Next]_vars

InitMain == InitGate /\ variant = "limitReqs"

SpecMain == InitMain /\ [][NextMain]_vars

InitRun == InitGate /\ variant = "limitNReqs"

SpecRun == InitRun /\ [][NextRun]_vars

\* run() with or without the flag -s.  In stream mode the payload is
\* standard input read live and, whatever -n says, the gate is built with
\* the budget 1.
InitStream ==
    /\ rev = "none" /\ origin = "memory" /\ InitSumVars
    /\ InitResIdle
    /\ InitExtIdle
    /\ variant = "limitNReqs"
    /\ mode \in {"offer", "stream"}
    /\ nreqs \in 0..MaxN
    /\ timeout \in {0, 1}
    /\ n = RunBudget
    /\ mu = NoReq
    /\ once = FALSE
    /\ done = FALSE
    /\ fires = 0
    /\ firer = NoReq
    /\ pc = [r \in Reqs |-> "new"]
    /\ method = [r \in Reqs |-> "GET"]
    /\ via = [r \in Reqs |-> "none"]
    /\ seen = [r \in Reqs |-> -1]
    /\ deferred = {}
    /\ resp = [r \in Reqs |-> "none"]
    /\ sig = FALSE
    /\ timer = IF timeout = 0 THEN "off" ELSE "armed"
    /\ cause = "none"
    /\ gpc = "select"
    /\ mpc = "serve"
    /\ waitConns = FALSE

SpecStream == InitStream /\ [][NextRun]_vars

----------------------------------------------------------------------------
\* The checksum endpoint

\* The gate and the coordinator, left aside while the checksum endpoint is
\* examined on its own.
InitGateVars ==
    /\ variant = "none" /\ mode = "offer" /\ nreqs = 0 /\ timeout = 0
    /\ n = 0 /\ mu = NoReq /\ once = FALSE /\ done = FALSE
    /\ fires = 0 /\ firer = NoReq
    /\ pc = [r \in Reqs |-> "new"]
    /\ method = [r \in Reqs |-> "GET"]
    /\ via = [r \in Reqs |-> "none"]
    /\ seen = [r \in Reqs |-> -1]
    /\ deferred = {}
    /\ resp = [r \in Reqs |-> "none"]
    /\ sig = FALSE /\ timer = "off" /\ cause = "none"
    /\ gpc = "select" /\ mpc = "serve" /\ waitConns = FALSE

\* Two revisions of the endpoint: the handlers made by sendChecksum (one
\* sync.Once and one sum per algorithm) and the handler made by
\* server.checksums (one sync.Map for all names).
InitSum ==
    /\ InitGateVars
    /\ rev \in {"sendChecksum", "checksums"}
    /\ origin \in {"memory", "disk", "stream"}
    \* the revision with checksums has no stream mode
    /\ origin = "stream" => rev = "sendChecksum"
    /\ InitSumVars
    /\ InitResIdle
    /\ InitExtIdle

\* Name of the offered file, as a sequence of path elements.
FileName == <<"dir", "hello.txt">>

\* path.Base
Base(p) == <<p[Len(p)]>>

\* h.Sum(nil) after k chunks of the payload have been written to the hash
\* of algorithm a: a digest stands for the algorithm and the bytes hashed.
Digest(a, k) == <<a, k>>

\* sendChecksum: fmt.Sprintf("%x  %s\n", h.Sum(nil), f.name); f.name is
\* already the base name.
FmtSum(a, k) == <<Digest(a, k)>> \o Base(FileName)

\* checksums: fmt.Sprintf("%s %x %s\n", algo, sum, path.Base(srv.file.name)).
FmtAlgoSum(a, k) == <<a, Digest(a, k)>> \o Base(FileName)

\* reader() / copyTo: a buffered payload is read from memory, a live
\* stream from standard input, any other payload from its file, which must
\* be readable at that moment.
CanRead == origin \in {"memory", "stream"} \/ readable

CacheStoreSkipped(m, a, l) == m

\* cache.Store(algo, fmtSum)
CacheStore(m, a, l) == [m EXCEPT ![a] = l]

SortedAlgosReversed == <<"sha512", "sha256", "sha1", "md5">>

\* sort.Strings over the keys of hashes.
SortedAlgos == <<"md5", "sha1", "sha256", "sha512">>

\* The names already asked for.
Asked == {salgo[d] : d \in {e \in SumReqs : spc[e] # "new"}}

\* The handlers of the four algorithms differ in the hash function only,
\* so the algorithms are taken into use in sorted order: a request may name
\* an algorithm not asked for before only when every algorithm sorted
\* before it has been asked for.
InUseOrder(a) ==
    a \in Algos =>
        \A i, j \in 1..Len(SortedAlgos) :
            (i < j /\ SortedAlgos[j] = a) => SortedAlgos[i] \in Asked

\* A checksum request arrives; requests are numbered in order of arrival.
\* In stream mode the gate in front of the handlers has the budget 1: one
\* request reaches them.
SumArrive(c, a) ==
    /\ rev # "none"
    /\ spc[c] = "new"
    /\ origin = "stream" => c = 1
    /\ \A d \in SumReqs : d < c => spc[d] # "new"
    /\ InUseOrder(a)
    /\ salgo' = [salgo EXCEPT ![c] = a]
    /\ prior' = [prior EXCEPT ![c] = {d \in SumReqs : spc[d] = "done"}]
    /\ spc' = [spc EXCEPT ![c] = "start"]
    /\ UNCHANGED <<extVars, resVars, aggVars, gateVars, rev, origin, readable, sumOnce, sum, cache,
                   hpos, line, sresp, attempted, failed, computed>>

\* The payload's file becomes unreadable, or readable again.
DiskChange ==
    /\ rev # "none"
    /\ origin = "disk"
    /\ readable' = ~readable
    /\ UNCHANGED <<extVars, resVars, aggVars, gateVars, rev, origin, sumOnce, sum, cache, spc, salgo,
                   hpos, line, sresp, prior, attempted, failed, computed>>

\* run(): a path under /checksums/ without a handler of its own goes to
\* sendError(404).
sendErrorNotFound(c) ==
    /\ rev = "sendChecksum"
    /\ spc[c] = "start"
    /\ salgo[c] \notin Algos
    /\ sresp' = [sresp EXCEPT ![c] = [status |-> "404", body |-> NoLine]]
    /\ spc' = [spc EXCEPT ![c] = "done"]
    /\ UNCHANGED <<extVars, resVars, aggVars, gateVars, rev, origin, readable, sumOnce, sum, cache,
                   salgo, hpos, line, prior, attempted, failed, computed>>

\* sendChecksum: once.Do(...).  The first caller runs the function, a
\* caller that arrives while it runs blocks until it has returned, a later
\* caller goes on at once.
sendChecksumOnce(c) ==
    /\ rev = "sendChecksum"
    /\ spc[c] = "start"
    /\ salgo[c] \in Algos
    /\ sumOnce[salgo[c]] # "running"
    /\ IF sumOnce[salgo[c]] = "fresh"
         THEN /\ sumOnce' = [sumOnce EXCEPT ![salgo[c]] = "running"]
              /\ spc' = [spc EXCEPT ![c] = "open"]
         ELSE /\ spc' = [spc EXCEPT ![c] = "reply"]
              /\ UNCHANGED sumOnce
    /\ UNCHANGED <<extVars, resVars, aggVars, gateVars, rev, origin, readable, sum, cache, salgo, hpos,
                   line, sresp, prior, attempted, failed, computed>>

\* sendChecksum, in the Once: "rd, err := f.reader()"; on an error the
\* function logs it and returns, leaving sum empty.
sendChecksumOpen(c) ==
    /\ rev = "sendChecksum"
    /\ spc[c] = "open"
    /\ attempted' = attempted \cup {c}
    /\ IF CanRead
         THEN /\ spc' = [spc EXCEPT ![c] = "copy"]
              /\ UNCHANGED <<sumOnce, failed>>
         ELSE /\ failed' = failed \cup {c}
              /\ sumOnce' = [sumOnce EXCEPT ![salgo[c]] = "done"]
              /\ spc' = [spc EXCEPT ![c] = "reply"]
    /\ UNCHANGED <<extVars, resVars, aggVars, gateVars, rev, origin, readable, sum, cache, salgo, hpos,
                   line, sresp, prior, computed>>

\* sendChecksum, in the Once: io.Copy(h, rd) reads one more chunk; on an
\* error the function logs it and returns, leaving sum empty.
sendChecksumCopy(c) ==
    /\ rev = "sendChecksum"
    /\ spc[c] = "copy"
    /\ hpos[c] < PayloadLen
    /\ IF CanRead
         THEN /\ hpos' = [hpos EXCEPT ![c] = @ + 1]
              /\ UNCHANGED <<sumOnce, failed, spc>>
         ELSE /\ failed' = failed \cup {c}
              /\ sumOnce' = [sumOnce EXCEPT ![salgo[c]] = "done"]
              /\ spc' = [spc EXCEPT ![c] = "reply"]
              /\ UNCHANGED hpos
    /\ UNCHANGED <<extVars, resVars, aggVars, gateVars, rev, origin, readable, sum, cache, salgo, line,
                   sresp, prior, attempted, computed>>

\* sendChecksum, in the Once: io.Copy has reached the end of the payload;
\* "sum = fmt.Sprintf(...)" and the function returns.
sendChecksumSum(c) ==
    /\ rev = "sendChecksum"
    /\ spc[c] = "copy"
    /\ hpos[c] = PayloadLen
    /\ sum' = [sum EXCEPT ![salgo[c]] = FmtSum(salgo[c], hpos[c])]
    /\ computed' = [computed EXCEPT ![salgo[c]] = @ + 1]
    /\ sumOnce' = [sumOnce EXCEPT ![salgo[c]] = "done"]
    /\ spc' = [spc EXCEPT ![c] = "reply"]
    /\ UNCHANGED <<extVars, resVars, aggVars, gateVars, rev, origin, readable, cache, salgo, hpos, line,
                   sresp, prior, attempted, failed>>

\* sendChecksum, after the Once: 500 if sum is empty, else sum is sent.
sendChecksumReply(c) ==
    /\ rev = "sendChecksum"
    /\ spc[c] = "reply"
    /\ sresp' = [sresp EXCEPT ![c] =
                    IF sum[salgo[c]] = NoLine
                      THEN [status |-> "500", body |-> NoLine]
                      ELSE [status |-> "200", body |-> sum[salgo[c]]]]
    /\ spc' = [spc EXCEPT ![c] = "done"]
    /\ UNCHANGED <<extVars, resVars, aggVars, gateVars, rev, origin, readable, sumOnce, sum, cache,
                   salgo, hpos, line, prior, attempted, failed, computed>>

\* checksums: "if cachedSum, ok := cache.Load(algo); ok" sends the cached
\* line; otherwise the handler goes on to srv.file.checksum(algo).
checksumsLoad(c) ==
    /\ rev = "checksums"
    /\ spc[c] = "start"
    /\ salgo[c] \in Keys
    /\ IF cache[salgo[c]] # NoLine
         THEN /\ sresp' = [sresp EXCEPT ![c] =
                             [status |-> "200", body |-> cache[salgo[c]]]]
              /\ spc' = [spc EXCEPT ![c] = "done"]
              /\ UNCHANGED apos
         ELSE IF salgo[c] # AllAlgos
                THEN /\ spc' = [spc EXCEPT ![c] = "open"]
                     /\ UNCHANGED <<sresp, apos>>
                ELSE /\ spc' = [spc EXCEPT ![c] = "loop"]
                     /\ apos' = [apos EXCEPT ![c] = 1]
                     /\ UNCHANGED sresp
    /\ UNCHANGED <<extVars, resVars, acomp, ahit, gateVars, rev, origin, readable, sumOnce, sum, cache,
                   salgo, hpos, line, prior, attempted, failed, computed>>

\* checksums: offeredFile.checksum looks the name up in hashes and opens
\* the payload (copyTo); either error is answered 404.
checksumsOpen(c) ==
    /\ rev = "checksums"
    /\ spc[c] = "open"
    /\ IF salgo[c] \notin Algos
         THEN /\ sresp' = [sresp EXCEPT ![c] =
                             [status |-> "404", body |-> NoLine]]
              /\ spc' = [spc EXCEPT ![c] = "done"]
              /\ UNCHANGED <<attempted, failed>>
         ELSE /\ attempted' = attempted \cup {c}
              /\ IF CanRead
                   THEN /\ spc' = [spc EXCEPT ![c] = "copy"]
                        /\ UNCHANGED <<sresp, failed>>
                   ELSE /\ failed' = failed \cup {c}
                        /\ sresp' = [sresp EXCEPT ![c] =
                                       [status |-> "404", body |-> NoLine]]
                        /\ spc' = [spc EXCEPT ![c] = "done"]
    /\ UNCHANGED <<extVars, resVars, aggVars, gateVars, rev, origin, readable, sumOnce, sum, cache,
                   salgo, hpos, line, prior, computed>>

\* checksums: io.Copy(w, ...) inside copyTo reads one more chunk; an
\* error is answered 404.
checksumsCopy(c) ==
    /\ rev = "checksums"
    /\ spc[c] = "copy"
    /\ hpos[c] < PayloadLen
    /\ IF CanRead
         THEN /\ hpos' = [hpos EXCEPT ![c] = @ + 1]
              /\ UNCHANGED <<failed, sresp, spc>>
         ELSE /\ failed' = failed \cup {c}
              /\ sresp' = [sresp EXCEPT ![c] =
                             [status |-> "404", body |-> NoLine]]
              /\ spc' = [spc EXCEPT ![c] = "done"]
              /\ UNCHANGED hpos
    /\ UNCHANGED <<extVars, resVars, aggVars, gateVars, rev, origin, readable, sumOnce, sum, cache,
                   salgo, line, prior, attempted, computed>>

\* checksums: the copy has reached the end of the payload; h.Sum(nil),
\* "fmtSum := fmt.Sprintf(...)" and "cache.Store(algo, fmtSum)".
checksumsStore(c) ==
    /\ rev = "checksums"
    /\ spc[c] = "copy"
    /\ hpos[c] = PayloadLen
    /\ line' = [line EXCEPT ![c] = FmtAlgoSum(salgo[c], hpos[c])]
    /\ computed' = [computed EXCEPT ![salgo[c]] = @ + 1]
    /\ cache' = CacheStore(cache, salgo[c], FmtAlgoSum(salgo[c], hpos[c]))
    /\ spc' = [spc EXCEPT ![c] = "reply"]
    /\ UNCHANGED <<extVars, resVars, aggVars, gateVars, rev, origin, readable, sumOnce, sum, salgo,
                   hpos, sresp, prior, attempted, failed>>

\* checksums: io.Copy(w, strings.NewReader(fmtSum)).
checksumsReply(c) ==
    /\ rev = "checksums"
    /\ spc[c] = "reply"
    /\ sresp' = [sresp EXCEPT ![c] = [status |-> "200", body |-> line[c]]]
    /\ spc' = [spc EXCEPT ![c] = "done"]
    /\ UNCHANGED <<extVars, resVars, aggVars, gateVars, rev, origin, readable, sumOnce, sum, cache,
                   salgo, hpos, line, prior, attempted, failed, computed>>

\* run() of the revision with checksums registers "/checksums/" only: the
\* ServeMux answers the path without the slash with a redirect to it.
muxRedirect(c) ==
    /\ rev = "checksums"
    /\ spc[c] = "start"
    /\ salgo[c] = NoSlash
    /\ sresp' = [sresp EXCEPT ![c] = [status |-> "301", body |-> NoLine]]
    /\ spc' = [spc EXCEPT ![c] = "done"]
    /\ UNCHANGED <<extVars, resVars, aggVars, gateVars, rev, origin, readable, sumOnce, sum,
                   cache, salgo, hpos, line, prior, attempted, failed,
                   computed>>

\* The name the loop over the sorted names is at.
LoopAlgo(c) == SortedAlgos[apos[c]]

\* checksums, all algorithms: "for _, a := range algos": a cached line is
\* appended to fmtSums, a missing one is computed.
checksumsAllLoad(c) ==
    /\ rev = "checksums"
    /\ spc[c] = "loop"
    /\ apos[c] <= Len(SortedAlgos)
    /\ IF cache[LoopAlgo(c)] # NoLine
         THEN /\ line' = [line EXCEPT ![c] = @ \o cache[LoopAlgo(c)]]
              /\ ahit' = ahit \cup {<<c, LoopAlgo(c)>>}
              /\ apos' = [apos EXCEPT ![c] = @ + 1]
              /\ UNCHANGED spc
         ELSE /\ spc' = [spc EXCEPT ![c] = "allopen"]
              /\ UNCHANGED <<line, ahit, apos>>
    /\ UNCHANGED <<extVars, resVars, acomp, gateVars, rev, origin, readable, sumOnce, sum,
                   cache, salgo, hpos, sresp, prior, attempted, failed,
                   computed>>

\* checksums, all algorithms, a name that was not cached:
\* "sum, err := srv.file.checksum(a)" hashes the payload, which touches
\* nothing another request can see; an error is answered 500, else
\* "fmtSum := fmt.Sprintf(...)", "cache.Store(a, fmtSum)",
\* "fmtSums.WriteString(fmtSum)" and the loop goes on.
checksumsAllSum(c) ==
    /\ rev = "checksums"
    /\ spc[c] = "allopen"
    /\ attempted' = attempted \cup {c}
    /\ IF CanRead
         THEN /\ cache' = CacheStore(cache, LoopAlgo(c),
                                     FmtAlgoSum(LoopAlgo(c), PayloadLen))
              /\ line' = [line EXCEPT ![c] =
                             @ \o FmtAlgoSum(LoopAlgo(c), PayloadLen)]
              /\ computed' = [computed EXCEPT ![LoopAlgo(c)] = @ + 1]
              /\ acomp' = acomp \cup {<<c, LoopAlgo(c)>>}
              /\ apos' = [apos EXCEPT ![c] = @ + 1]
              /\ spc' = [spc EXCEPT ![c] = "loop"]
              /\ UNCHANGED <<sresp, failed>>
         ELSE /\ failed' = failed \cup {c}
              /\ sresp' = [sresp EXCEPT ![c] =
                             [status |-> "500", body |-> NoLine]]
              /\ spc' = [spc EXCEPT ![c] = "done"]
              /\ UNCHANGED <<cache, line, computed, acomp, apos>>
    /\ UNCHANGED <<extVars, resVars, ahit, gateVars, rev, origin, readable, sumOnce, sum, salgo,
                   hpos, prior>>

\* checksums, all algorithms: after the loop
\* "cache.Store(algo, fmtSums.String())" and
\* "io.Copy(w, strings.NewReader(fmtSums.String()))".
checksumsAllStore(c) ==
    /\ rev = "checksums"
    /\ spc[c] = "loop"
    /\ apos[c] > Len(SortedAlgos)
    /\ cache' = CacheStore(cache, AllAlgos, line[c])
    /\ sresp' = [sresp EXCEPT ![c] = [status |-> "200", body |-> line[c]]]
    /\ spc' = [spc EXCEPT ![c] = "done"]
    /\ UNCHANGED <<extVars, resVars, aggVars, gateVars, rev, origin, readable, sumOnce, sum,
                   salgo, hpos, line, prior, attempted, failed, computed>>

NextSum ==
    \/ \E c \in SumReqs :
          \/ \E a \in Names : SumArrive(c, a)
          \/ sendErrorNotFound(c)
          \/ sendChecksumOnce(c)
          \/ sendChecksumOpen(c)
          \/ sendChecksumCopy(c)
          \/ sendChecksumSum(c)
          \/ sendChecksumReply(c)
          \/ checksumsLoad(c)
          \/ checksumsOpen(c)
          \/ checksumsCopy(c)
          \/ checksumsStore(c)
          \/ checksumsReply(c)
    \/ DiskChange

SpecSum == InitSum /\ [][NextSum]_vars

\* The paths asked for when the request for all algorithms is examined.
AllPaths == Algos \cup {AllAlgos, NoSlash}

\* The checksum endpoint with the paths /checksums/ and /checksums.
NextAll ==
    \/ \E c \in SumReqs :
          \/ \E a \in AllPaths : c <= MaxAllReqs /\ SumArrive(c, a)
          \/ sendErrorNotFound(c)
          \/ sendChecksumOnce(c)
          \/ sendChecksumOpen(c)
          \/ sendChecksumCopy(c)
          \/ sendChecksumSum(c)
          \/ sendChecksumReply(c)
          \/ muxRedirect(c)
          \/ checksumsLoad(c)
          \/ checksumsOpen(c)
          \/ checksumsCopy(c)
          \/ checksumsStore(c)
          \/ checksumsReply(c)
          \/ checksumsAllLoad(c)
          \/ checksumsAllSum(c)
          \/ checksumsAllStore(c)
    \/ DiskChange

SpecAll == InitSum /\ [][NextAll]_vars

----------------------------------------------------------------------------
\* The payload resolver: tryReadAll, offerStdin, offerFile, reader

\* The bytes of the input.
Input == [i \in 1..inLen |-> i]

\* io.ReadFull came short with n bytes: io.EOF when it read nothing,
\* io.ErrUnexpectedEOF otherwise.
ReadFullErr(k) == IF k = 0 THEN "EOF" ELSE "ErrUnexpectedEOF"

\* tryReadAll, "if err != nil" after io.ReadFull: the error returned with
\* buf[:n].  The earliest revision forgives io.ErrUnexpectedEOF only, the
\* later ones also io.EOF with n == 0.
ShortResult(e, k) ==
    IF rrev = "part_002"
      THEN IF e = "ErrUnexpectedEOF" THEN "nil" ELSE e
      ELSE IF e = "ErrUnexpectedEOF" \/ (e = "EOF" /\ k = 0) THEN "nil" ELSE e

\* r.Read(buf2) with a buffer of one byte: one byte if the input has one
\* left, with io.EOF in the same call when it is the last byte and the
\* reader is of that kind; no byte and io.EOF at the end of the input.
ReadOne ==
    IF rd < inLen
      THEN [n2 |-> 1,
            err |-> IF rd + 1 = inLen /\ eofWithData THEN "EOF" ELSE "nil"]
      ELSE [n2 |-> 0, err |-> "EOF"]

\* tryReadAll, after the further read: the error returned.
\*   earliest revision: "if n2 > 0 || !errors.Is(err, io.EOF)" errTooBig,
\*                      else nil;
\*   later revisions:   "if n2 > 0 { ...; if err == nil { err = errTooBig } }
\*                      if errors.Is(err, io.EOF) { err = nil }".
ExtraResult(x) ==
    IF rrev = "part_002"
      THEN IF x.n2 > 0 \/ x.err # "EOF" THEN "errTooBig" ELSE "nil"
      ELSE LET e1 == IF x.n2 > 0 /\ x.err = "nil" THEN "errTooBig" ELSE x.err
           IN  IF e1 = "EOF" THEN "nil" ELSE e1

TooBigForBufferOrEqual(size, b) == size >= b

\* offerFile: "if uint(finfo.Size()) > bufSize".
TooBigForBuffer(size, b) == size > b

SpoolBufSkipped(t, b) == t

\* offerStdin: io.Copy(tmp, bytes.NewReader(buf)).
SpoolBuf(t, b) == t \o b

\* reader() / copyTo: the source the payload is read from.
\*   earliest revision: "if len(of.buf) > 0" memory, else os.Open(of.name);
\*   later revisions:   isStream, then isBuffered, else os.Open(f.path).
ReaderSource(p) ==
    IF rrev = "part_002"
      THEN IF Len(p.buf) > 0 THEN "memory" ELSE "path"
      ELSE IF p.isStream THEN "stream"
           ELSE IF p.isBuffered THEN "memory" ELSE "path"

\* The fields of the payload the revision has: the earliest one has neither
\* isBuffered nor isStream.
Buffered(b) ==
    [NoPayload EXCEPT !.buf = b, !.isBuffered = (rrev # "part_002")]

\* tryReadAll: io.ReadFull reads one more byte into buf.
tryReadAllFill ==
    /\ rpc = "readfull"
    /\ Len(buf) < bufSize
    /\ rd < inLen
    /\ buf' = Append(buf, Input[rd + 1])
    /\ rd' = rd + 1
    /\ UNCHANGED <<extVars, gateVars, sumVars, aggVars, rrev, caller, flagStream,
                   bufSize, inLen, eofWithData, extra, perr, rpc, tmp,
                   tmpState, pl, rerr, made, rsrc>>

\* tryReadAll: io.ReadFull meets the end of the input before buf is full
\* and tryReadAll returns.
tryReadAllShort ==
    /\ rpc = "readfull"
    /\ Len(buf) < bufSize
    /\ rd = inLen
    /\ perr' = ShortResult(ReadFullErr(Len(buf)), Len(buf))
    /\ rpc' = "probed"
    /\ UNCHANGED <<extVars, gateVars, sumVars, aggVars, rrev, caller, flagStream,
                   bufSize, inLen, eofWithData, rd, buf, extra, tmp,
                   tmpState, pl, rerr, made, rsrc>>

\* tryReadAll: buf is full (at once when bufSize is 0); one further read
\* into buf2 tells whether the input goes on, and tryReadAll returns.
tryReadAllExtra ==
    /\ rpc = "readfull"
    /\ Len(buf) = bufSize
    /\ extra' = ReadOne
    /\ buf' = IF ReadOne.n2 > 0 THEN Append(buf, Input[rd + 1]) ELSE buf
    /\ rd' = rd + ReadOne.n2
    /\ perr' = ExtraResult(ReadOne)
    /\ rpc' = "probed"
    /\ UNCHANGED <<extVars, gateVars, sumVars, aggVars, rrev, caller, flagStream,
                   bufSize, inLen, eofWithData, tmp, tmpState, pl, rerr,
                   made, rsrc>>

\* offerStdin: in stream mode the payload is standard input itself; else
\* tryReadAll(os.Stdin, bufSize) is called.
offerStdin ==
    /\ caller = "stdin"
    /\ rpc = "start"
    /\ IF flagStream
         THEN /\ pl' = [NoPayload EXCEPT !.path = "-", !.isStream = TRUE]
              /\ made' = "stream"
              /\ rerr' = "nil"
              /\ rpc' = "resolved"
         ELSE /\ rpc' = "readfull"
              /\ UNCHANGED <<pl, made, rerr>>
    /\ UNCHANGED <<extVars, gateVars, sumVars, aggVars, rrev, caller, flagStream,
                   bufSize, inLen, eofWithData, rd, buf, extra, perr, tmp,
                   tmpState, rsrc>>

\* offerStdin, after tryReadAll: a buffered payload when it fitted, the
\* error when it is not errTooBig, else os.CreateTemp, which may fail.
offerStdinProbed(ok) ==
    /\ caller = "stdin"
    /\ rpc = "probed"
    /\ IF perr = "nil"
         THEN /\ pl' = [Buffered(buf) EXCEPT !.path = "-"]
              /\ made' = "memory"
              /\ rerr' = "nil"
              /\ rpc' = "resolved"
              /\ UNCHANGED tmpState
         ELSE IF perr # "errTooBig"
                THEN /\ rerr' = perr
                     /\ rpc' = "failed"
                     /\ UNCHANGED <<pl, made, tmpState>>
                ELSE IF ok
                       THEN /\ tmpState' = "open"
                            /\ rpc' = "spoolbuf"
                            /\ UNCHANGED <<pl, made, rerr>>
                       ELSE /\ rerr' = "io"
                            /\ rpc' = "failed"
                            /\ UNCHANGED <<pl, made, tmpState>>
    /\ UNCHANGED <<extVars, gateVars, sumVars, aggVars, rrev, caller, flagStream,
                   bufSize, inLen, eofWithData, rd, buf, extra, perr, tmp,
                   rsrc>>

\* offerStdin: io.Copy(tmp, bytes.NewReader(buf)).
offerStdinSpoolBuf ==
    /\ rpc = "spoolbuf"
    /\ tmp' = SpoolBuf(tmp, buf)
    /\ rpc' = "spoolrest"
    /\ UNCHANGED <<extVars, gateVars, sumVars, aggVars, rrev, caller, flagStream,
                   bufSize, inLen, eofWithData, rd, buf, extra, perr,
                   tmpState, pl, rerr, made, rsrc>>

\* offerStdin: io.Copy(tmp, os.Stdin) copies one more byte.
offerStdinSpoolRest ==
    /\ rpc = "spoolrest"
    /\ rd < inLen
    /\ tmp' = Append(tmp, Input[rd + 1])
    /\ rd' = rd + 1
    /\ UNCHANGED <<extVars, gateVars, sumVars, aggVars, rrev, caller, flagStream,
                   bufSize, inLen, eofWithData, buf, extra, perr, rpc,
                   tmpState, pl, rerr, made, rsrc>>

\* offerStdin: io.Copy(tmp, os.Stdin) has reached the end of the input; the
\* payload is the temporary file.
offerStdinSpooled ==
    /\ rpc = "spoolrest"
    /\ rd = inLen
    /\ pl' = [NoPayload EXCEPT !.path = "tmp", !.isTemp = TRUE]
    /\ tmpState' = "kept"
    /\ made' = "disk"
    /\ rerr' = "nil"
    /\ rpc' = "resolved"
    /\ UNCHANGED <<extVars, gateVars, sumVars, aggVars, rrev, caller, flagStream,
                   bufSize, inLen, eofWithData, rd, buf, extra, perr, tmp,
                   rsrc>>

\* The temporary file is left where it is.
RemoveTempSkipped(st) == st

\* os.Remove(tmp.Name()): the temporary file is gone.
RemoveTemp(st) == "removed"

\* offerStdin: one of the two copies fails: os.Remove(tmp.Name()) and the
\* error is returned.
offerStdinSpoolFail ==
    /\ rpc \in {"spoolbuf", "spoolrest"}
    /\ tmpState' = RemoveTemp(tmpState)
    /\ rerr' = "io"
    /\ rpc' = "failed"
    /\ UNCHANGED <<extVars, gateVars, sumVars, aggVars, rrev, caller, flagStream,
                   bufSize, inLen, eofWithData, rd, buf, extra, perr, tmp,
                   pl, made, rsrc>>

\* offerFile: os.Stat; a directory is an error, a file larger than the
\* buffer is left on disk, any other file is opened and read by tryReadAll.
offerFile ==
    /\ caller \in {"file", "dir"}
    /\ rpc = "start"
    /\ IF caller = "dir"
         THEN /\ rerr' = "errIsDir"
              /\ rpc' = "failed"
              /\ UNCHANGED <<pl, made>>
         ELSE IF TooBigForBuffer(inLen, bufSize)
                THEN /\ pl' = [NoPayload EXCEPT !.path = "file"]
                     /\ made' = "disk"
                     /\ rerr' = "nil"
                     /\ rpc' = "resolved"
                ELSE /\ rpc' = "readfull"
                     /\ UNCHANGED <<pl, made, rerr>>
    /\ UNCHANGED <<extVars, gateVars, sumVars, aggVars, rrev, caller, flagStream,
                   bufSize, inLen, eofWithData, rd, buf, extra, perr, tmp,
                   tmpState, rsrc>>

\* offerFile, after tryReadAll: any error is returned, else the payload is
\* the buffer.
offerFileProbed ==
    /\ caller = "file"
    /\ rpc = "probed"
    /\ IF perr = "nil"
         THEN /\ pl' = [Buffered(buf) EXCEPT !.path = "file"]
              /\ made' = "memory"
              /\ rerr' = "nil"
              /\ rpc' = "resolved"
         ELSE /\ rerr' = perr
              /\ rpc' = "failed"
              /\ UNCHANGED <<pl, made>>
    /\ UNCHANGED <<extVars, gateVars, sumVars, aggVars, rrev, caller, flagStream,
                   bufSize, inLen, eofWithData, rd, buf, extra, perr, tmp,
                   tmpState, rsrc>>

\* A request is served: reader() / copyTo picks the source of the bytes.
reader ==
    /\ rpc = "resolved"
    /\ rsrc' = ReaderSource(pl)
    /\ rpc' = "read"
    /\ UNCHANGED <<extVars, gateVars, sumVars, aggVars, rrev, caller, flagStream,
                   bufSize, inLen, eofWithData, rd, buf, extra, perr, tmp,
                   tmpState, pl, rerr, made>>

\* Everything but the resolver, left aside.
InitResolver ==
    /\ InitGateVars
    /\ InitStopIdle
    /\ InitExtIdle
    /\ rev = "none" /\ origin = "memory" /\ InitSumVars
    /\ rrev \in {"part_002", "offer"}
    /\ bufSize \in 0..MaxBuf
    /\ inLen \in 0..MaxLen
    /\ rd = 0 /\ buf = <<>> /\ extra = NoExtra /\ perr = "none"
    /\ tmp = <<>> /\ tmpState = "none"
    /\ pl = NoPayload
    /\ rerr = "none" /\ made = "none" /\ rsrc = "none"

\* tryReadAll called on a reader over the input, as TestTryReadAll does.
\* An io.Reader may return its last bytes together with io.EOF or io.EOF
\* alone in the next call.
InitProbe ==
    /\ InitResolver
    /\ caller = "probe"
    /\ flagStream = FALSE
    /\ eofWithData \in BOOLEAN
    /\ rpc = "readfull"

NextProbe ==
    \/ tryReadAllFill
    \/ tryReadAllShort
    \/ tryReadAllExtra

SpecProbe == InitProbe /\ [][NextProbe]_vars

\* run(): the payload is standard input or the file named on the command
\* line; both are read through an *os.File, which returns io.EOF alone.
\* Only the later revisions have the flag -s.
InitResolve ==
    /\ InitResolver
    /\ caller \in {"stdin", "file", "dir"}
    /\ caller = "dir" => inLen = 0
    /\ flagStream \in BOOLEAN
    /\ flagStream => (rrev = "offer" /\ caller = "stdin")
    /\ eofWithData = FALSE
    /\ rpc = "start"

NextResolve ==
    \/ NextProbe
    \/ offerStdin
    \/ \E ok \in BOOLEAN : offerStdinProbed(ok)
    \/ offerStdinSpoolBuf
    \/ offerStdinSpoolRest
    \/ offerStdinSpooled
    \/ offerStdinSpoolFail
    \/ offerFile
    \/ offerFileProbed
    \/ reader

SpecResolve == InitResolve /\ [][NextResolve]_vars

\* Another process appends a byte to the named file after offerFile has
\* taken its size with os.Stat and before tryReadAll has returned.
FileGrows ==
    /\ caller = "file"
    /\ rpc = "readfull"
    /\ inLen < MaxLen
    /\ inLen' = inLen + 1
    /\ UNCHANGED <<extVars, gateVars, sumVars, aggVars, rrev, caller,
                   flagStream, bufSize, eofWithData, rd, buf, extra, perr,
                   rpc, tmp, tmpState, pl, rerr, made, rsrc>>

\* The resolver on a file that may grow while it is resolved.
NextGrow == NextResolve \/ FileGrows

SpecGrow == InitResolve /\ [][NextGrow]_vars

----------------------------------------------------------------------------
\* run() from the start of the server to its return

\* -tempdir: the working directory or another directory.
TempDirs == {<<>>, <<"tmp">>}

\* tmp.Name() of the file os.CreateTemp made in directory d.
TmpName(d) == d \o <<"offer-1">>

\* The payload offerStdin returns for a spooled input: path is tmp.Name()
\* and name its base; in part_002 the one field name holds tmp.Name().
TempFile(v, d) ==
    [path |-> TmpName(d),
     name |-> IF v = "part_002" THEN TmpName(d) ELSE Base(TmpName(d)),
     isTemp |-> TRUE]

\* run() after the payload is resolved, in three revisions: offer.go (and
\* the payload revision of part_000), the file revision of part_000, and
\* part_002, which has neither gate, timer nor -k: its requests go
\* straight to the handler, as with -n 0, and only a signal stops it.
InitStop ==
    /\ rev = "none" /\ origin = "memory" /\ InitSumVars
    /\ InitExtIdle
    /\ rrev \in {"offer", "part_000", "part_002"}
    /\ caller = "none" /\ flagStream = FALSE
    /\ bufSize = 0 /\ inLen = 0 /\ eofWithData = FALSE
    /\ rd = 0 /\ buf = <<>> /\ extra = NoExtra /\ perr = "none"
    /\ rpc = "idle" /\ tmp = <<>> /\ tmpState = "none"
    /\ pl = NoPayload
    /\ rerr = "none" /\ made = "none" /\ rsrc = "none"
    /\ flagKeep \in BOOLEAN
    /\ f \in {NoFile} \cup {TempFile(rrev, d) : d \in TempDirs}
    /\ disk = IF f.isTemp THEN {f.path} ELSE {}
    /\ rmPath = <<>>
    /\ ret = "none"
    /\ variant = "limitNReqs"
    /\ mode = "offer"
    /\ nreqs \in 0..MaxN
    /\ timeout \in {0, 1}
    /\ rrev = "part_002" => ~flagKeep /\ nreqs = 0 /\ timeout = 0
    /\ n = RunBudget
    /\ mu = NoReq
    /\ once = FALSE
    /\ done = FALSE
    /\ fires = 0
    /\ firer = NoReq
    /\ pc = [r \in Reqs |-> "new"]
    /\ method = [r \in Reqs |-> "GET"]
    /\ via = [r \in Reqs |-> "none"]
    /\ seen = [r \in Reqs |-> -1]
    /\ deferred = {}
    /\ resp = [r \in Reqs |-> "none"]
    /\ sig = FALSE
    /\ timer = "off"
    /\ cause = "none"
    /\ gpc = "newtimer"
    /\ mpc = "listen"
    /\ waitConns = FALSE

NextStop ==
    \/ \E r \in Reqs :
          \/ \E m \in Methods : r <= MaxStopReqs /\ Arrive(r, m)
          \/ limitNReqsPass(r)
          \/ limitNReqsLock(r)
          \/ limitNReqsAdmit(r)
          \/ Reject(r)
          \/ \E out \in HandlerResp(r) : Handle(r, out)
          \/ limitNReqsRelock(r)
          \/ limitNReqsCheck(r)
    \/ runNewTimer
    \/ \E stopped \in BOOLEAN : runStopTimer(stopped)
    \/ runDrainTimer
    \/ \E ok, rm \in BOOLEAN : ListenAndServe(ok, rm)
    \/ \E c \in {"sig", "timeout", "done"} : runSelect(c)
    \/ ServeReturn
    \/ ShutdownReturn
    \/ runCloseWaitConns
    \/ \E ok \in BOOLEAN : runWaitConns(ok)
    \/ Signal
    \/ TimerExpire

SpecStop == InitStop /\ [][NextStop]_vars

\* The steps of the program; requests, signals and the passing of time are
\* up to the environment.
ProgramStop ==
    \/ \E r \in Reqs :
          \/ limitNReqsPass(r)
          \/ limitNReqsLock(r)
          \/ limitNReqsAdmit(r)
          \/ Reject(r)
          \/ \E out \in HandlerResp(r) : Handle(r, out)
          \/ limitNReqsRelock(r)
          \/ limitNReqsCheck(r)
    \/ runNewTimer
    \/ \E stopped \in BOOLEAN : runStopTimer(stopped)
    \/ runDrainTimer
    \/ \E ok, rm \in BOOLEAN : ListenAndServe(ok, rm)
    \/ \E c \in {"sig", "timeout", "done"} : runSelect(c)
    \/ ServeReturn
    \/ ShutdownReturn
    \/ runCloseWaitConns
    \/ \E ok \in BOOLEAN : runWaitConns(ok)

\* The latest revision, its temporary file outside the working directory.
InitFairStop ==
    /\ InitStop
    /\ rrev = "offer"
    /\ f.isTemp => f.path = TmpName(<<"tmp">>)

FairStop == InitFairStop /\ [][NextStop]_vars /\ WF_vars(ProgramStop)

----------------------------------------------------------------------------
\* Requests of any method, to either revision of the server

\* The methods a client may send.
AnyMethod == {"GET", "POST", "PUT"}

\* The methods the endpoint supports: GET where a file is offered, GET
\* (the upload page) and POST where one is received.
Supported(m) == IF mode = "receive" THEN m \in {"GET", "POST"} ELSE m = "GET"

NextMethods ==
    \/ \E r \in Reqs :
          \/ \E m \in AnyMethod : r <= MaxMethodReqs /\ Arrive(r, m)
          \/ limitNReqsPass(r)
          \/ limitNReqsLock(r)
          \/ limitNReqsAdmit(r)
          \/ limitNReqsRelock(r)
          \/ limitNReqsCheck(r)
          \/ limitReqsBypass(r)
          \/ limitReqsLock(r)
          \/ limitReqsAdmit(r)
          \/ Reject(r)
          \/ \E out \in HandlerResp(r) : Handle(r, out)
          \/ mainSelectDone(r)
          \/ mainRecvHandler(r)
    \/ \E c \in {"sig", "timeout", "done"} : runSelect(c)
    \/ mainSelectSig
    \/ ServeReturn
    \/ ShutdownReturn
    \/ runCloseWaitConns
    \/ \E ok \in BOOLEAN : runWaitConns(ok)
    \/ mainSendDone
    \/ Signal
    \/ TimerExpire

SpecMethods == InitGate /\ [][NextMethods]_vars

----------------------------------------------------------------------------
\* Basic authentication: the argument of -u

\* Characters of a string: two that are not the colon, and the colon.
Chars == {"a", "b", ":"}

\* The strings of at most MaxStr characters.
Strs == UNION {[1..k -> Chars] : k \in 0..MaxStr}

\* The positions of the colons of s.
Colons(s) == {i \in 1..Len(s) : s[i] = ":"}

\* The string is cut at its last colon.
SplitAtLastColon(s) ==
    IF Colons(s) = {} THEN <<s>>
    ELSE LET i == CHOOSE j \in Colons(s) : \A k \in Colons(s) : k <= j
         IN  <<SubSeq(s, 1, i - 1), SubSeq(s, i + 1, Len(s))>>

\* strings.SplitN(s, ":", 2): the string itself when it has no colon, else
\* what precedes and what follows its first colon.
SplitN2(s) ==
    IF Colons(s) = {} THEN <<s>>
    ELSE LET i == CHOOSE j \in Colons(s) : \A k \in Colons(s) : j <= k
         IN  <<SubSeq(s, 1, i - 1), SubSeq(s, i + 1, Len(s))>>

\* parseUserPass: "" turns authentication off; else exactly two non-empty
\* fields around the first colon, or errInvalidUserPass.
parseUserPass(s) ==
    IF s = <<>>
      THEN [user |-> <<>>, pass |-> <<>>, err |-> "nil"]
      ELSE LET c == SplitN2(s)
           IN  IF Len(c) # 2 \/ c[1] = <<>> \/ c[2] = <<>>
                 THEN [user |-> <<>>, pass |-> <<>>,
                       err |-> "errInvalidUserPass"]
                 ELSE [user |-> c[1], pass |-> c[2], err |-> "nil"]

\* run(): user, pass, err := parseUserPass(*flagUserPass).
runParseUserPass ==
    /\ cred = NoCred
    /\ cred' = parseUserPass(flagUserPass)
    /\ UNCHANGED <<gateVars, sumVars, aggVars, resVars, stopVars, recvVars,
                   chainVars, flagUserPass>>

InitAuth ==
    /\ InitGateVars
    /\ rev = "none" /\ origin = "memory" /\ InitSumVars
    /\ InitResIdle
    /\ InitRecvIdle
    /\ InitChainIdle
    /\ flagUserPass \in Strs
    /\ cred = NoCred

NextAuth == runParseUserPass

SpecAuth == InitAuth /\ [][NextAuth]_vars

----------------------------------------------------------------------------
\* The handler chain of run(): basicAuth, limitNReqs, http.DefaultServeMux

ChainReqs == 1..MaxChainReqs

\* The paths explored: the payload, a checksum, and /checksums itself,
\* which is registered with sendError(404).
ChainPaths == {"/", "/checksums/md5", "/checksums"}

\* -u: no authentication, or a user and a password.
UserPassFlags == {<<>>, <<"a", ":", "b">>}

\* What r.BasicAuth() can return: no usable header, or a user and a
\* password: a:b, a with another password, another user with b.
BasicAuths ==
    {NoBasicAuth,
     [user |-> <<"a">>, pass |-> <<"b">>, ok |-> TRUE],
     [user |-> <<"a">>, pass |-> <<"a">>, ok |-> TRUE],
     [user |-> <<"b">>, pass |-> <<"b">>, ok |-> TRUE]}

AuthorizedUserOnly(c) == c.ok /\ c.user = cred.user

\* basicAuth: "ok && u == user && p == pass".
Authorized(c) == c.ok /\ c.user = cred.user /\ c.pass = cred.pass

\* basicAuth: "if user == "" || pass == "" { return h }".
AuthOff == cred.user = <<>> \/ cred.pass = <<>>

\* What the handler registered for path p can answer: sendFile and
\* sendChecksum 200 or, when the payload cannot be read, 500;
\* sendError(404) always 404.
MuxResp(p) == IF p = "/checksums" THEN {"404"} ELSE {"200", "500"}

\* A connection is accepted and its request read: the chain starts at
\* basicAuth.
ArriveChain(r, p, c) ==
    /\ Alive /\ Listening
    /\ pc[r] = "new"
    /\ \A q \in Reqs : q < r => pc[q] # "new"
    /\ rpath' = [rpath EXCEPT ![r] = p]
    /\ rcred' = [rcred EXCEPT ![r] = c]
    /\ pc' = [pc EXCEPT ![r] = "auth"]
    /\ UNCHANGED <<stopVars, recvVars, authVars, resVars, aggVars, sumVars,
                   variant, mode, nreqs, timeout, n, mu, once, done, fires,
                   firer, method, via, seen, deferred, resp, sig, timer,
                   cause, gpc, mpc, waitConns>>

\* basicAuth: without credentials configured the request goes straight to
\* the gate; with them it goes there when user and password match, and is
\* answered 401 otherwise.
basicAuth(r) ==
    /\ Alive
    /\ pc[r] = "auth"
    /\ IF AuthOff \/ Authorized(rcred[r])
         THEN /\ pc' = [pc EXCEPT ![r] = "enter"]
              /\ UNCHANGED resp
         ELSE /\ resp' = [resp EXCEPT ![r] = "401"]
              /\ pc' = [pc EXCEPT ![r] = "done"]
    /\ UNCHANGED <<extVars, resVars, aggVars, sumVars, variant, mode, nreqs,
                   timeout, n, mu, once, done, fires, firer, method, via,
                   seen, deferred, sig, timer, cause, gpc, mpc, waitConns>>

\* h.ServeHTTP(w, r) with h = http.DefaultServeMux: the handler registered
\* for the path answers and returns.
muxServe(r, out) ==
    /\ Alive
    /\ pc[r] = "handler"
    /\ out \in MuxResp(rpath[r])
    /\ resp' = [resp EXCEPT ![r] = out]
    /\ pc' = [pc EXCEPT ![r] = AfterHandler(r)]
    /\ UNCHANGED <<extVars, resVars, aggVars, sumVars, variant, mode, nreqs,
                   timeout, n, mu, once, done, fires, firer, method, via,
                   seen, deferred, sig, timer, cause, gpc, mpc, waitConns>>

\* run() once the server is listening, with or without -u, without -t.
InitChain ==
    /\ rev = "none" /\ origin = "memory" /\ InitSumVars
    /\ InitResIdle
    /\ InitRecvIdle
    /\ InitChainIdle
    /\ flagUserPass \in UserPassFlags
    /\ cred = parseUserPass(flagUserPass)
    /\ variant = "limitNReqs"
    /\ mode = "offer"
    /\ nreqs \in 0..MaxN
    /\ timeout = 0
    /\ n = RunBudget
    /\ mu = NoReq
    /\ once = FALSE
    /\ done = FALSE
    /\ fires = 0
    /\ firer = NoReq
    /\ pc = [r \in Reqs |-> "new"]
    /\ method = [r \in Reqs |-> "GET"]
    /\ via = [r \in Reqs |-> "none"]
    /\ seen = [r \in Reqs |-> -1]
    /\ deferred = {}
    /\ resp = [r \in Reqs |-> "none"]
    /\ sig = FALSE
    /\ timer = "off"
    /\ cause = "none"
    /\ gpc = "select"
    /\ mpc = "serve"
    /\ waitConns = FALSE

NextChain ==
    \/ \E r \in ChainReqs :
          \/ \E p \in ChainPaths, c \in BasicAuths : ArriveChain(r, p, c)
          \/ basicAuth(r)
          \/ limitNReqsPass(r)
          \/ limitNReqsLock(r)
          \/ limitNReqsAdmit(r)
          \/ Reject(r)
          \/ \E out \in {"200", "404", "500"} : muxServe(r, out)
          \/ limitNReqsRelock(r)
          \/ limitNReqsCheck(r)
    \/ \E c \in {"sig", "done"} : runSelect(c)
    \/ ServeReturn
    \/ ShutdownReturn
    \/ runCloseWaitConns
    \/ \E ok \in BOOLEAN : runWaitConns(ok)
    \/ Signal

SpecChain == InitChain /\ [][NextChain]_vars

----------------------------------------------------------------------------
\* Receive mode: main() with receive and safeRename

\* "-": the upload goes to standard output.
Stdout == <<"-">>

\* "@": the upload is named after the filename its part declares.
At == <<"@">>

\* A destination given by name, as its stem and its extension.
OutTxt == <<"out", ".txt">>

\* %d of a small number.
Itoa(i) == <<"1", "2", "3", "4", "5", "6", "7", "8", "9">>[i]

\* The suffix goes between the stem and the extension.
CandidateBeforeExt(np, i) == <<np[1], "-", Itoa(i)>> \o Tail(np)

\* safeRename: fmt.Sprintf("%s-%d", newpath, i).
Candidate(np, i) == np \o <<"-", Itoa(i)>>

\* The k-th name safeRename tries after newpath itself.
Tried(np, k) == IF k = 0 THEN np ELSE Candidate(np, k)

\* os.CreateTemp(".", "offer-receive-") for upload u: a fresh name.
TempName(u) == <<"offer-receive-", Itoa(u)>>

Temps == {TempName(u) : u \in Ups}

\* The bytes of part k of upload u, and the bytes of a file that was there
\* before the server started.
Data(u, k) == <<u, k>>

OldData == <<0, 0>>

\* The whole content of upload u: its parts one after the other.
WholeData(u) == [k \in 1..Len(body[u].parts) |-> Data(u, k)]

\* part.FileName(): a name, or the empty string when the part declares none.
FileNames == {<<>>, OutTxt}

\* Request bodies: not multipart at all, or some parts followed by the
\* closing boundary ("eof") or by something malformed ("bad").
Bodies ==
    {[parts |-> p, end |-> e] :
        p \in UNION {[1..k -> FileNames] : k \in 0..MaxParts},
        e \in {"eof", "bad"}}
    \cup {[parts |-> <<>>, end |-> "notmultipart"]}

ExistsNever(p) == FALSE

\* os.Link fails with fs.ErrExist when the new name is taken.
Exists(p) == p \in DOMAIN files

\* receive: the method checks, r.MultipartReader() and os.CreateTemp.
receive(u, m, b, ok) ==
    /\ upc[u] = "new"
    /\ \A v \in Ups : v < u => upc[v] # "new"
    \* main dies when "-" comes with -n > 1
    /\ fpath = Stdout => u = 1
    /\ IF m = "POST" THEN b \in Bodies ELSE b = NoBody
    /\ umethod' = [umethod EXCEPT ![u] = m]
    /\ body' = [body EXCEPT ![u] = b]
    /\ IF m = "GET"
         THEN /\ ustatus' = [ustatus EXCEPT ![u] = "page"]
              /\ upc' = [upc EXCEPT ![u] = "done"]
              /\ UNCHANGED <<files, uerr>>
         ELSE IF m # "POST"
         THEN /\ ustatus' = [ustatus EXCEPT ![u] = "405"]
              /\ upc' = [upc EXCEPT ![u] = "done"]
              /\ UNCHANGED <<files, uerr>>
         ELSE IF b.end = "notmultipart"
         THEN /\ uerr' = [uerr EXCEPT ![u] = @ \cup {"multipart"}]
              /\ ustatus' = [ustatus EXCEPT ![u] = "400"]
              /\ upc' = [upc EXCEPT ![u] = "done"]
              /\ UNCHANGED files
         ELSE IF fpath # Stdout /\ ~ok
         THEN /\ uerr' = [uerr EXCEPT ![u] = @ \cup {"create"}]
              /\ ustatus' = [ustatus EXCEPT ![u] = "500"]
              /\ upc' = [upc EXCEPT ![u] = "done"]
              /\ UNCHANGED files
         ELSE /\ files' = IF fpath # Stdout
                             THEN (TempName(u) :> <<>>) @@ files
                             ELSE files
              /\ upc' = [upc EXCEPT ![u] = "loop"]
              /\ UNCHANGED <<ustatus, uerr>>
    /\ UNCHANGED <<gateVars, sumVars, aggVars, resVars, stopVars, authVars,
                   chainVars,
                   fpath, stdout, pos, partfname, newpath, rfpath, ri,
                   placed>>

\* receive: one turn of the loop: mr.NextPart(), part.FileName() and
\* io.Copy(f, part); the loop is left with 200 at the end of the body, with
\* 400 when the body is malformed, with 500 when the copy fails.
receiveNextPart(u, ok) ==
    /\ upc[u] = "loop"
    /\ IF pos[u] < Len(body[u].parts)
         THEN /\ pos' = [pos EXCEPT ![u] = @ + 1]
              /\ partfname' =
                    IF fpath = At /\ partfname[u] = <<>>
                      THEN [partfname EXCEPT ![u] = body[u].parts[pos[u] + 1]]
                      ELSE partfname
              /\ IF ok
                   THEN /\ IF fpath = Stdout
                             THEN /\ stdout' = Append(stdout, Data(u, pos[u] + 1))
                                  /\ UNCHANGED files
                             ELSE /\ files' = [files EXCEPT ![TempName(u)] =
                                                Append(@, Data(u, pos[u] + 1))]
                                  /\ UNCHANGED stdout
                        /\ UNCHANGED <<upc, ustatus, uerr>>
                   ELSE /\ uerr' = [uerr EXCEPT ![u] = @ \cup {"copy"}]
                        /\ ustatus' = [ustatus EXCEPT ![u] = "500"]
                        /\ upc' = [upc EXCEPT ![u] = "break"]
                        /\ UNCHANGED <<files, stdout>>
         ELSE /\ IF body[u].end = "eof"
                   THEN /\ ustatus' = [ustatus EXCEPT ![u] = "200"]
                        /\ UNCHANGED uerr
                   ELSE /\ uerr' = [uerr EXCEPT ![u] = @ \cup {"nextpart"}]
                        /\ ustatus' = [ustatus EXCEPT ![u] = "400"]
              /\ upc' = [upc EXCEPT ![u] = "break"]
              /\ UNCHANGED <<pos, partfname, files, stdout>>
    /\ UNCHANGED <<gateVars, sumVars, aggVars, resVars, stopVars, authVars,
                   chainVars,
                   fpath, umethod, body, newpath, rfpath, ri, placed>>

\* receive, after the loop: nothing more for standard output; with "@" the
\* name is the first filename a part declared, and its absence an error;
\* then safeRename(f.Name(), fname) is called.
receiveRename(u) ==
    /\ upc[u] = "break"
    /\ IF fpath = Stdout
         THEN /\ upc' = [upc EXCEPT ![u] = "done"]
              /\ UNCHANGED <<uerr, newpath, rfpath, ri>>
         ELSE IF fpath = At /\ partfname[u] = <<>>
         THEN /\ uerr' = [uerr EXCEPT ![u] = @ \cup {"filename missing"}]
              /\ upc' = [upc EXCEPT ![u] = "done"]
              /\ UNCHANGED <<newpath, rfpath, ri>>
         ELSE /\ newpath' = [newpath EXCEPT ![u] =
                               IF fpath = At THEN partfname[u] ELSE fpath]
              /\ rfpath' = [rfpath EXCEPT ![u] = newpath'[u]]
              /\ ri' = [ri EXCEPT ![u] = 1]
              /\ upc' = [upc EXCEPT ![u] = "link"]
              /\ UNCHANGED uerr
    /\ UNCHANGED <<gateVars, sumVars, aggVars, resVars, stopVars, authVars,
                   chainVars,
                   fpath, files, stdout, umethod, body, pos, partfname,
                   placed, ustatus>>

\* safeRename: one turn of the loop: os.Link(oldpath, fpath); when the name
\* is taken the next candidate is built; the loop ends with fs.ErrExist
\* when the counter has run through its range.
safeRenameLink(u, ok) ==
    /\ upc[u] = "link"
    /\ IF ri[u] > MaxLinks
         THEN /\ uerr' = [uerr EXCEPT ![u] = @ \cup {"exist"}]
              /\ upc' = [upc EXCEPT ![u] = "done"]
              /\ UNCHANGED <<files, rfpath, ri, placed>>
         ELSE IF Exists(rfpath[u])
         THEN /\ rfpath' = [rfpath EXCEPT ![u] = Candidate(newpath[u], ri[u])]
              /\ ri' = [ri EXCEPT ![u] = @ + 1]
              /\ UNCHANGED <<files, upc, placed, uerr>>
         ELSE IF ok
         THEN /\ files' = (rfpath[u] :> files[TempName(u)]) @@ files
              /\ placed' = [placed EXCEPT ![u] = rfpath[u]]
              /\ upc' = [upc EXCEPT ![u] = "remove"]
              /\ UNCHANGED <<rfpath, ri, uerr>>
         ELSE /\ uerr' = [uerr EXCEPT ![u] = @ \cup {"link"}]
              /\ upc' = [upc EXCEPT ![u] = "done"]
              /\ UNCHANGED <<files, rfpath, ri, placed>>
    /\ UNCHANGED <<gateVars, sumVars, aggVars, resVars, stopVars, authVars,
                   chainVars,
                   fpath, stdout, umethod, body, pos, partfname, newpath,
                   ustatus>>

\* safeRename: "return os.Remove(oldpath)" once the link is made.
safeRenameRemove(u, ok) ==
    /\ upc[u] = "remove"
    /\ IF ok
         THEN /\ files' = [x \in DOMAIN files \ {TempName(u)} |-> files[x]]
              /\ UNCHANGED uerr
         ELSE /\ uerr' = [uerr EXCEPT ![u] = @ \cup {"remove"}]
              /\ UNCHANGED files
    /\ upc' = [upc EXCEPT ![u] = "done"]
    /\ UNCHANGED <<gateVars, sumVars, aggVars, resVars, stopVars, authVars,
                   chainVars,
                   fpath, stdout, umethod, body, pos, partfname, newpath,
                   rfpath, ri, placed, ustatus>>

\* The server in receive mode; some of the names safeRename may try are
\* taken by files that were there before.
InitReceive ==
    /\ InitGateVars
    /\ rev = "none" /\ origin = "memory" /\ InitSumVars
    /\ InitResIdle
    /\ InitAuthIdle
    /\ InitChainIdle
    /\ fpath \in {Stdout, At, OutTxt}
    /\ \E taken \in SUBSET {Tried(OutTxt, k) : k \in 0..(MaxLinks - 1)} :
          files = [x \in taken |-> <<OldData>>]
    /\ stdout = <<>>
    /\ upc = [u \in Ups |-> "new"]
    /\ umethod = [u \in Ups |-> "none"]
    /\ body = [u \in Ups |-> NoBody]
    /\ pos = [u \in Ups |-> 0]
    /\ partfname = [u \in Ups |-> <<>>]
    /\ newpath = [u \in Ups |-> <<>>]
    /\ rfpath = [u \in Ups |-> <<>>]
    /\ ri = [u \in Ups |-> 0]
    /\ placed = [u \in Ups |-> <<>>]
    /\ ustatus = [u \in Ups |-> "none"]
    /\ uerr = [u \in Ups |-> {}]

NextReceive ==
    \E u \in Ups :
       \/ \E m \in {"GET", "POST", "PUT"}, b \in Bodies \cup {NoBody},
             ok \in BOOLEAN : receive(u, m, b, ok)
       \/ \E ok \in BOOLEAN : receiveNextPart(u, ok)
       \/ receiveRename(u)
       \/ \E ok \in BOOLEAN : safeRenameLink(u, ok)
       \/ \E ok \in BOOLEAN : safeRenameRemove(u, ok)

SpecReceive == InitReceive /\ [][NextReceive]_vars

\* The Go scheduler runs every runnable goroutine and the clients read their
\* responses: a step of the program that stays possible is eventually
\* taken.  Arrivals of requests and signals are up to the environment.
ProgramMain ==
    \/ \E r \in Reqs :
          \/ limitReqsBypass(r)
          \/ limitReqsLock(r)
          \/ limitReqsAdmit(r)
          \/ Reject(r)
          \/ \E out \in HandlerResp(r) : Handle(r, out)
          \/ mainSelectDone(r)
          \/ mainRecvHandler(r)
    \/ mainSelectSig
    \/ ServeReturn
    \/ ShutdownReturn
    \/ mainSendDone

InitOffer == InitMain /\ mode = "offer"

FairOffer == InitOffer /\ [][NextMain]_vars /\ WF_vars(ProgramMain)

----------------------------------------------------------------------------
\* Properties of the admission gate

Arrived == {r \in Reqs : pc[r] # "new"}

Admitted == {r \in Reqs : via[r] = "admit"}

Rejected == {r \in Reqs : via[r] = "reject"}

\* C1: limitNReqs with budget N >= 1: when N+1 requests have reached the
\* gate, in whatever interleaving, and all of them have finished, exactly N
\* of them ran the wrapped handler, exactly one was answered 503 and the
\* exhaustion signal (close(done)) was issued exactly once; while they run
\* never more than N are admitted and the signal is issued at most once.
C1_AdmissionExhaustion ==
    (variant = "limitNReqs" /\ nreqs >= 1) =>
        /\ Cardinality(Admitted) <= nreqs
        /\ fires <= 1
        /\ (Cardinality(Arrived) = nreqs + 1 /\ \A r \in Arrived : pc[r] = "done")
             => /\ Cardinality({r \in Reqs : via[r] = "admit"
                                   /\ resp[r] \in {"200", "500"}}) = nreqs
                /\ Cardinality({r \in Reqs : via[r] = "reject"
                                   /\ resp[r] = "503"}) = 1
                /\ fires = 1 /\ done

C1_Witness ==
    /\ variant = "limitNReqs" /\ nreqs >= 2
    /\ Cardinality(Arrived) = nreqs + 1
    /\ \A r \in Arrived : pc[r] = "done"
    /\ Cardinality(Rejected) = 1
    /\ fires = 1

\* C2 as stated: the exhaustion signal is issued at most once and exactly at
\* the step where the remaining count goes from 1 to 0.
C2_FiresAtDecrement ==
    [][(fires' <= 1) /\ (fires' # fires => (n = 1 /\ n' = 0))]_vars

\* C2 amended: the exhaustion signal is issued at most once, and only in a
\* step that finds the remaining count already 0 and leaves it 0, taken by a
\* request the gate admitted, after its wrapped handler has returned: in
\* limitNReqs inside the second critical section of whichever admitted
\* request first finds n == 0 there, in limitReqs by the deferred send of
\* the request that made the decrement from 1 to 0, outside the mutex.
C2_FiresAfterHandler ==
    [][/\ fires' <= 1
       /\ fires' # fires =>
            /\ n = 0 /\ n' = 0
            /\ firer' \in Reqs
            /\ via[firer'] = "admit"
            /\ resp[firer'] # "none"
            /\ variant = "limitNReqs" => (pc[firer'] = "crit2" /\ mu = firer')
            /\ variant = "limitReqs" => (pc[firer'] = "send" /\ mu # firer'
                                          /\ seen[firer'] = 1)]_vars

\* the signal was issued by a request other than the one whose decrement
\* took the count from 1 to 0
C2_Witness ==
    /\ fires = 1
    /\ firer \in Reqs
    /\ seen[firer] = 2
    /\ n = 0

\* C3: a request that reaches the gate's critical section with remaining
\* == 0 is answered 503: the wrapped handler is not invoked for it, the
\* count stays 0, and the request neither issues the exhaustion signal nor
\* registers the deferred send.
C3_RejectWhenExhausted ==
    \A r \in Reqs :
        (via[r] \in {"admit", "reject"} /\ seen[r] = 0) =>
            /\ via[r] = "reject"
            /\ pc[r] \in {"reject", "done"}
            /\ resp[r] = (IF pc[r] = "done" THEN "503" ELSE "none")
            /\ n = 0
            /\ firer # r
            /\ r \notin deferred

C3_Witness ==
    \E r \in Reqs :
        /\ via[r] = "reject" /\ seen[r] = 0
        /\ pc[r] = "done" /\ resp[r] = "503"
        /\ GateBudget >= 1

\* C4: with the unlimited budget (-n 0) limitNReqs forwards every request
\* to the wrapped handler, the gate answers none with 503, the exhaustion
\* signal is never issued, and the shutdown can only have been started by a
\* signal or by the timeout.
C4_UnlimitedBudget ==
    (variant = "limitNReqs" /\ nreqs = 0) =>
        /\ \A r \in Reqs :
              /\ pc[r] \notin {"new", "enter"} => via[r] = "pass"
              /\ via[r] \in {"none", "pass"}
              /\ resp[r] # "503"
              /\ pc[r] = "done" => resp[r] \in {"200", "500"}
        /\ fires = 0 /\ ~done /\ ~once
        /\ cause \in {"none", "sig", "timeout"}
        /\ gpc # "select" => cause # "none"

C4_Witness ==
    /\ variant = "limitNReqs" /\ nreqs = 0
    /\ \A r \in Reqs : pc[r] = "done" /\ via[r] = "pass"
    /\ mpc = "exit"
    /\ cause = "sig"

\* C5: limitReqs forwards a request whose method differs from the gate's
\* method to the wrapped handler whatever the remaining count is: the step
\* takes no lock and changes neither the count nor anything of the
\* exhaustion signal, and such a request is never answered 503.
C5_OtherMethodBypasses ==
    /\ [](\A r \in Reqs :
            (variant = "limitReqs" /\ method[r] # GateMethod
               /\ pc[r] \notin {"new", "enter"}) =>
                /\ via[r] = "bypass"
                /\ pc[r] \in {"handler", "done"}
                /\ resp[r] # "503"
                /\ pc[r] = "done" => resp[r] # "none"
                /\ r \notin deferred
                /\ firer # r)
    /\ [](variant = "limitReqs" =>
            n = GateBudget - Cardinality({r \in Reqs : via[r] = "admit"
                                             /\ method[r] = GateMethod}))
    /\ [][\A r \in Reqs :
            (variant = "limitReqs" /\ pc[r] = "enter"
               /\ method[r] # GateMethod /\ pc'[r] # pc[r]) =>
                /\ pc'[r] = "handler"
                /\ n' = n /\ mu' = mu /\ fires' = fires
                /\ deferred' = deferred /\ gpc' = gpc /\ mpc' = mpc]_vars

\* a request of another method went through after the budget was used up
C5_Witness ==
    \E r \in Reqs :
        /\ variant = "limitReqs" /\ GateBudget >= 1
        /\ via[r] = "bypass" /\ seen[r] = 0
        /\ pc[r] = "done" /\ resp[r] \notin {"none", "503"}

\* C6: in receive mode at most one POST reaches the upload handler, every
\* other POST that passes the gate is answered 503, and every GET gets the
\* upload page, before or after the POST, without using the POST budget:
\* the count is 1 minus the admitted POSTs and only a POST can issue the
\* exhaustion signal that starts the shutdown.
C6_ReceiveOnePost ==
    (variant = "limitReqs" /\ mode = "receive") =>
        /\ Cardinality({r \in Reqs : method[r] = "POST" /\ via[r] = "admit"}) <= 1
        /\ n = 1 - Cardinality({r \in Reqs : method[r] = "POST"
                                    /\ via[r] = "admit"})
        /\ \A r \in Reqs :
              /\ (method[r] = "POST" /\ via[r] # "admit" /\ pc[r] = "done")
                    => resp[r] = "503"
              /\ (method[r] = "POST" /\ resp[r] \notin {"none", "503"})
                    => via[r] = "admit"
              /\ (method[r] = "GET" /\ pc[r] \notin {"new", "enter"})
                    => via[r] = "bypass"
              /\ (method[r] = "GET" /\ pc[r] = "done") => resp[r] = "page"
              /\ via[r] \in {"admit", "reject"} => method[r] = "POST"
        /\ firer # NoReq => method[firer] = "POST"
        /\ deferred \subseteq {r \in Reqs : method[r] = "POST"}
        /\ cause = "done" => firer # NoReq

C6_Witness ==
    /\ variant = "limitReqs" /\ mode = "receive"
    /\ \E p, q, g \in Reqs :
          /\ method[p] = "POST" /\ via[p] = "admit" /\ resp[p] = "200"
          /\ method[q] = "POST" /\ resp[q] = "503"
          /\ method[g] = "GET" /\ seen[g] = 0 /\ resp[g] = "page"

\* C7: offering a file with -n N, N >= 1: never more than N GET requests
\* are admitted to the offer handler and exactly N have been when the
\* budget is used up; when the server stops because of the exhaustion
\* signal all N have been answered (with the file, or 500 if it could not
\* be opened); and once the budget is used up the process eventually exits
\* without any signal, the scheduler being fair.
C7_OfferNThenExit ==
    /\ []((variant = "limitReqs" /\ mode = "offer" /\ nreqs >= 1) =>
            /\ Cardinality(Admitted) <= nreqs
            /\ \A r \in Admitted : method[r] = "GET"
            /\ n = 0 => Cardinality(Admitted) = nreqs
            /\ (mpc = "exit" /\ cause = "done") =>
                  Cardinality({r \in Admitted : pc[r] = "done"
                                  /\ resp[r] \in {"200", "500"}}) = nreqs)
    /\ ((nreqs >= 1 /\ n = 0) ~> (mpc = "exit"))

C7_Witness ==
    /\ variant = "limitReqs" /\ mode = "offer" /\ nreqs >= 2
    /\ mpc = "exit" /\ cause = "done"
    /\ Cardinality({r \in Reqs : method[r] = "GET" /\ resp[r] = "200"}) = nreqs

----------------------------------------------------------------------------
\* Properties of the checksum endpoint

\* The requests that have arrived asking for name a.
AskedFor(a) == {c \in SumReqs : spc[c] # "new" /\ salgo[c] = a}

\* The line the endpoint sends for algorithm a when the whole payload has
\* been hashed.
FullLine(a) ==
    IF rev = "sendChecksum" THEN FmtSum(a, PayloadLen)
                            ELSE FmtAlgoSum(a, PayloadLen)

\* C8: requests for the same checksum algorithm, also when the first ones
\* arrive concurrently, lead to one digest computation over the payload at
\* most; all callers that get a digest get the same line, and that line is
\* the digest of the whole payload, never of a part of it.
C8_SingleFlight ==
    /\ \A a \in Algos : computed[a] <= 1
    /\ \A c \in SumReqs :
          (salgo[c] \in Algos /\ sresp[c].status = "200")
              => sresp[c].body = FullLine(salgo[c])

\* C9: when a request for an algorithm has been answered with its digest
\* line, every request for the same algorithm that arrives afterwards gets
\* the identical line and never opens the payload; and when the requests
\* for an algorithm come one after the other, each arriving after the
\* previous one was answered, its digest is computed at most once.
C9_SequentialIdempotent ==
    /\ \A c1, c2 \in SumReqs :
          (c1 \in prior[c2] /\ salgo[c1] = salgo[c2] /\ salgo[c1] \in Algos
             /\ sresp[c1].status = "200") =>
                /\ c2 \notin attempted
                /\ spc[c2] \notin {"open", "copy"}
                /\ spc[c2] = "done" => sresp[c2] = sresp[c1]
    /\ \A a \in Algos :
          (\A c1, c2 \in AskedFor(a) :
              c1 # c2 => (c1 \in prior[c2] \/ c2 \in prior[c1]))
                => computed[a] <= 1

C9_Witness ==
    \E c1, c2 \in SumReqs :
        /\ c1 \in prior[c2]
        /\ salgo[c1] \in Algos /\ salgo[c2] = salgo[c1]
        /\ c1 \in attempted /\ c2 \notin attempted
        /\ sresp[c1].status = "200"
        /\ spc[c2] = "done" /\ sresp[c2] = sresp[c1]
        /\ computed[salgo[c1]] = 1

\* C10: a failed digest computation is not cached: a request for the same
\* algorithm that arrives after a request whose computation failed is
\* answered with the digest, unless its own attempt to read the payload
\* fails too.
C10_FailureNotCached ==
    \A c1, c2 \in SumReqs :
        (c1 \in prior[c2] /\ salgo[c1] = salgo[c2] /\ salgo[c1] \in Algos
           /\ c1 \in failed /\ spc[c2] = "done") =>
              (sresp[c2].status = "200" \/ c2 \in failed)

\* C11: a checksum request for a name that is not an algorithm is answered
\* 404 and leaves no entry in the cache; and 404 is the answer to such a
\* name only, never to a request for one of the four algorithms, whatever
\* happens to its computation.
C11_NotFoundOnlyUnknown ==
    /\ \A c \in SumReqs :
          (salgo[c] = UnknownAlgo /\ spc[c] = "done") =>
              sresp[c] = [status |-> "404", body |-> NoLine]
    /\ cache[UnknownAlgo] = NoLine
    /\ \A c \in SumReqs : sresp[c].status = "404" => salgo[c] \notin Algos

\* The lines of the four algorithms, md5 first.
AllLines ==
    FmtAlgoSum("md5", PayloadLen) \o FmtAlgoSum("sha1", PayloadLen)
        \o FmtAlgoSum("sha256", PayloadLen) \o FmtAlgoSum("sha512", PayloadLen)

\* C12: the answer of checksums to the request for all algorithms is the
\* concatenation of the lines of md5, sha1, sha256 and sha512 in this order;
\* in its loop a name found in the cache is appended from the cache without
\* any computation and only a name not found there is computed; when the
\* request has succeeded the four lines and the whole answer are in the
\* cache, and a request for all algorithms that arrives afterwards is
\* answered with the same text without entering the loop or opening the
\* payload.
C12_AllAlgorithms ==
    /\ [](rev = "checksums" =>
            /\ \A c \in SumReqs :
                  (salgo[c] = AllAlgos /\ sresp[c].status = "200") =>
                      /\ sresp[c].body = AllLines
                      /\ cache[AllAlgos] = AllLines
                      /\ \A a \in Algos : cache[a] = FmtAlgoSum(a, PayloadLen)
                      /\ \A a \in Algos :
                            (<<c, a>> \in acomp) # (<<c, a>> \in ahit)
                               \/ apos[c] = 0
            /\ \A c1, c2 \in SumReqs :
                  (c1 \in prior[c2] /\ sresp[c1].status = "200"
                     /\ salgo[c2] = AllAlgos) =>
                      /\ salgo[c1] \in Algos => <<c2, salgo[c1]>> \notin acomp
                      /\ salgo[c1] = AllAlgos =>
                            /\ c2 \notin attempted
                            /\ apos[c2] = 0
                            /\ \A a \in Algos : <<c2, a>> \notin acomp
                            /\ spc[c2] = "done" => sresp[c2] = sresp[c1])
    /\ [][\A c \in SumReqs :
            (rev = "checksums" /\ spc[c] = "loop"
               /\ apos[c] <= Len(SortedAlgos)) =>
                /\ spc'[c] = "allopen" => cache[SortedAlgos[apos[c]]] = NoLine
                /\ apos'[c] # apos[c] =>
                      /\ cache[SortedAlgos[apos[c]]] # NoLine
                      /\ line'[c] = line[c] \o cache[SortedAlgos[apos[c]]]
                      /\ computed' = computed
                      /\ attempted' = attempted]_vars

\* md5 was cached by an earlier request; the request for all algorithms
\* took it from the cache, computed the three others and was answered
C12_Witness ==
    \E c1, c2 \in SumReqs :
        /\ rev = "checksums"
        /\ salgo[c1] = "md5" /\ sresp[c1].status = "200"
        /\ c1 \in prior[c2]
        /\ salgo[c2] = AllAlgos
        /\ sresp[c2] = [status |-> "200", body |-> AllLines]
        /\ <<c2, "md5">> \in ahit
        /\ \A a \in Algos \ {"md5"} : <<c2, a>> \in acomp
        /\ \A a \in Algos : computed[a] = 1

\* C13: GET /checksums and GET /checksums/ are both answered with the
\* lines of all supported algorithms, a success and not 404, unless the
\* request's own reading of the payload failed.
C13_RootIsAggregate ==
    \A c \in SumReqs :
        (salgo[c] \in {AllAlgos, NoSlash} /\ spc[c] = "done") =>
            \/ sresp[c].status = "200" /\ sresp[c].body # NoLine
            \/ c \in failed

----------------------------------------------------------------------------
\* Properties of stream mode

\* C14: in stream mode the gate is built with the budget 1 whatever -n says
\* (0 for unlimited, or any N): the count starts at 1, over the whole run at
\* most one request is forwarded to the handlers that read the live stream,
\* and every other request that reaches the gate's critical section is
\* answered 503.
C14_StreamBudgetOne ==
    (variant = "limitNReqs" /\ mode = "stream") =>
        /\ n = 1 - Cardinality(Admitted)
        /\ Cardinality(Forwarded) <= 1
        /\ \A r \in Reqs :
              /\ via[r] # "pass"
              /\ (via[r] \in {"admit", "reject"} /\ r \notin Forwarded)
                    => via[r] = "reject"
              /\ (via[r] = "reject" /\ pc[r] = "done") => resp[r] = "503"
              /\ (pc[r] = "done" /\ r \notin Forwarded) => resp[r] = "503"
              /\ resp[r] \notin {"none", "503"} => r \in Forwarded

\* unlimited or N > 1 was configured, one request read the stream and two
\* more were turned away
C14_Witness ==
    /\ variant = "limitNReqs" /\ mode = "stream"
    /\ nreqs # 1
    /\ Cardinality({r \in Reqs : via[r] = "admit" /\ resp[r] = "200"}) = 1
    /\ Cardinality({r \in Reqs : via[r] = "reject" /\ resp[r] = "503"}) >= 2

\* C15: no checksum computation reads a live-stream payload: when the
\* payload is standard input in stream mode, no request to a checksum
\* endpoint feeds a byte of the stream to a hash.
C15_StreamNeverHashed ==
    origin = "stream" => \A c \in SumReqs : hpos[c] = 0

----------------------------------------------------------------------------
\* Properties of the payload resolver

\* C16: tryReadAll with threshold B on an input of length L: when L <= B
\* (L = 0 and L = B included) it returns the L bytes of the input and no
\* error; when L > B it returns errTooBig and at least B+1 bytes, which are
\* a prefix of the input.
C16_BoundedProbe ==
    perr # "none" =>
        IF inLen <= bufSize
          THEN perr = "nil" /\ buf = Input
          ELSE /\ perr = "errTooBig"
               /\ Len(buf) >= bufSize + 1
               /\ buf = SubSeq(Input, 1, Len(buf))

\* C17: when tryReadAll has filled its buffer of B bytes and the one
\* further read returns a byte, it returns errTooBig with B+1 bytes, also
\* when that read returns io.EOF together with the byte.
C17_ExtraByteTooBig ==
    (perr # "none" /\ extra.n2 >= 1) =>
        /\ perr = "errTooBig"
        /\ Len(buf) = bufSize + 1

\* The source a payload of the given kind is to be read from.
SourceOf(kind) ==
    CASE kind = "memory" -> "memory"
      [] kind = "stream" -> "stream"
      [] kind = "disk" -> "path"
      [] OTHER -> "none"

C19_ResolveNamedFile ==
    (rrev = "offer" /\ caller \in {"file", "dir"}
       /\ rpc \in {"resolved", "read", "failed"}) =>
        /\ caller = "dir" =>
              rpc = "failed" /\ rerr = "errIsDir" /\ pl = NoPayload
        /\ (caller = "file" /\ inLen > bufSize) =>
              /\ rpc # "failed" /\ rerr = "nil"
              /\ made = "disk"
              /\ rd = 0
              /\ pl = [NoPayload EXCEPT !.path = "file"]
        /\ (caller = "file" /\ inLen <= bufSize) =>
              /\ rpc # "failed" /\ rerr = "nil"
              /\ made = "memory"
              /\ rd = inLen
              /\ pl = [NoPayload EXCEPT !.path = "file", !.buf = Input,
                                        !.isBuffered = TRUE]

\* a file exactly as large as the threshold was buffered and is served
\* from memory
C19_Witness ==
    /\ rrev = "offer" /\ caller = "file"
    /\ inLen = bufSize /\ inLen >= 1
    /\ rpc = "read"
    /\ pl.buf = Input /\ rsrc = "memory"

\* C20: offerStdin without -s on an input longer than the threshold: the
\* probe reports errTooBig, and when the resolver succeeds the temporary
\* file holds the whole input in order, the B+1 bytes the probe had read
\* followed by the rest, no byte lost or written twice, and the payload is
\* the temporary file, marked isTemp.
C20_SpoolWholeInput ==
    (caller = "stdin" /\ ~flagStream /\ inLen > bufSize) =>
        /\ perr \in {"none", "errTooBig"}
        /\ rpc \in {"spoolbuf", "spoolrest"} => Len(buf) = bufSize + 1
        /\ rpc = "spoolrest" => tmp = SubSeq(Input, 1, rd)
        /\ rpc \in {"resolved", "read"} =>
              /\ tmp = Input
              /\ tmpState = "kept"
              /\ made = "disk"
              /\ pl = [NoPayload EXCEPT !.path = "tmp", !.isTemp = TRUE]

\* the input went on after the byte that showed it was too big
C20_Witness ==
    /\ caller = "stdin" /\ ~flagStream
    /\ bufSize >= 1 /\ inLen >= bufSize + 2
    /\ rpc = "read"
    /\ tmp = Input /\ pl.isTemp /\ rsrc = "path"

\* C21: when a copy into the temporary file fails while standard input is
\* spooled, offerStdin has removed that file and returns the error with no
\* payload, so run returns before any reader is opened and nothing is
\* served; a resolution that failed leaves no temporary file behind.
C21_SpoolFailureRemovesTemp ==
    (caller = "stdin" /\ rpc = "failed")
        => /\ rerr \notin {"nil", "none"}
           /\ pl = NoPayload
           /\ made = "none"
           /\ rsrc = "none"
           /\ tmpState \in {"none", "removed"}

\* The copy of the rest of standard input failed after bytes had been
\* written to the temporary file.
C21_Witness ==
    /\ caller = "stdin" /\ rpc = "failed" /\ rerr = "io"
    /\ Len(tmp) > Len(buf)
    /\ tmpState = "removed"

\* C22: the goroutine of run leaves its select, and calls srv.Shutdown,
\* only on a signal, on the expiry of a non-zero timeout or on the closing
\* of done, and each of them, once it has happened while the server
\* listens, is followed by the shutdown; with -t 0 the timer is stopped or
\* drained before the select and the timeout is never the cause.
C22_EventsStartDrain ==
    /\ [](timeout = 0 /\ gpc = "select" => timer \in {"off", "read"})
    /\ [](timeout = 0 => cause # "timeout")
    /\ [][(gpc \in BeforeShutdown /\ gpc' \notin BeforeShutdown)
            => /\ gpc = "select" /\ gpc' = "shutdown"
               /\ \/ cause' = "sig" /\ sig
                  \/ cause' = "timeout" /\ timer = "fired" /\ timeout # 0
                  \/ cause' = "done" /\ done]_vars
    /\ (mpc = "serve" /\ sig) ~> (cause # "none")
    /\ (mpc = "serve" /\ gpc = "select" /\ timer = "fired")
          ~> (cause # "none")
    /\ (mpc = "serve" /\ done) ~> (cause # "none")

\* The timeout alone has started the shutdown: no signal is pending and the
\* gate is not exhausted.
C22_Witness ==
    /\ gpc = "shutdown" /\ cause = "timeout"
    /\ ~sig /\ ~done

\* C23: run returns only when no request is between its arrival and the
\* end of its handler; a request that has reached the handler leaves it
\* only with the handler's own response, and does so whatever starts the
\* shutdown meanwhile; a signal that finds the server listening and idle
\* is followed by the return of run with no error (exit code 0) unless
\* the removal of the temporary file fails.
C23_GracefulShutdown ==
    /\ [](mpc = "exit" => \A r \in Reqs : pc[r] \in {"new", "done"})
    /\ [](\A r \in Reqs : pc[r] = "done" => resp[r] # "none")
    /\ [][\A r \in Reqs :
            pc[r] = "handler"
               => pc'[r] = "handler" \/ resp'[r] \in {"200", "500"}]_vars
    /\ \A r \in Reqs : (pc[r] = "handler") ~> (resp[r] \in {"200", "500"})
    /\ (mpc = "serve" /\ sig /\ \A r \in Reqs : pc[r] \in {"new", "done"})
          ~> (mpc = "exit"
                /\ (ret = "nil" \/ (ret = "remove" /\ RemovesTemp)))

\* A signal has started the shutdown while a transfer is in flight.
C23_Witness ==
    /\ gpc = "shutdown" /\ cause = "sig"
    /\ \E r \in Reqs : pc[r] = "handler"

\* C24: once the server has been started, files are removed only by run's
\* last step, after Shutdown has returned (waitConns closed) and the serve
\* loop has ended; run then
\* calls os.Remove exactly when the payload is temporary and -k was not
\* given, on the path of the spooled file; when run returns no error that
\* file is gone, and when the file is still there run returned the error
\* of os.Remove.
C24_TempRemovedAfterDrain ==
    /\ [][(disk' # disk \/ rmPath' # rmPath)
            => \/ mpc = "wait" /\ waitConns /\ mpc' = "exit"
               \/ ret' = "listen"]_vars
    /\ [](mpc = "exit" /\ waitConns
            => /\ rmPath # <<>> <=> (f.isTemp /\ ~flagKeep)
               /\ rmPath # <<>> => rmPath = f.path
               /\ (rmPath # <<>> /\ ret = "nil") => f.path \notin disk
               /\ (rmPath # <<>> /\ f.path \in disk) => ret = "remove"
               /\ rmPath = <<>> => ret = "nil" /\ (f.isTemp => f.path \in disk))

\* C25: no step removes or changes a file that exists under a final name;
\* an upload is linked under the first of newpath, newpath-1, newpath-2,
\* ... that is free, with the content of its temporary file, and a new
\* final name appears in no other way; when safeRename gives up with
\* fs.ErrExist every name of its range is taken, the upload is linked
\* nowhere and its temporary file is still there.
C25_SafeRenameNeverOverwrites ==
    /\ [][/\ \A x \in DOMAIN files \ Temps :
               x \in DOMAIN files' /\ files'[x] = files[x]
          /\ \A x \in DOMAIN files' \ (DOMAIN files \cup Temps) :
               \E u \in Ups : placed[u] = <<>> /\ placed'[u] = x
          /\ \A u \in Ups :
               placed'[u] # placed[u]
                  => \E k \in 0..(MaxLinks - 1) :
                        /\ placed'[u] = Tried(newpath[u], k)
                        /\ \A j \in 0..(k - 1) :
                              Tried(newpath[u], j) \in DOMAIN files
                        /\ placed'[u] \notin DOMAIN files
                        /\ files'[placed'[u]] = files[TempName(u)]]_vars
    /\ [](\A u \in Ups :
            "exist" \in uerr[u]
               => /\ \A k \in 0..(MaxLinks - 1) :
                        Tried(newpath[u], k) \in DOMAIN files
                  /\ placed[u] = <<>>
                  /\ TempName(u) \in DOMAIN files)

\* One upload has been linked under the last name of the range, after the
\* taken ones, and another has found every name taken.
C25_Witness ==
    \E u, v \in Ups :
       /\ placed[u] = Tried(OutTxt, MaxLinks - 1)
       /\ upc[u] = "done"
       /\ "exist" \in uerr[v]

\* Two uploads for out.txt have been received whole and renamed with no
\* error, out.txt was there before and no other name was taken.
TwoUploadsForOutTxt ==
    /\ \A u \in 1..2 :
          /\ upc[u] = "done" /\ ustatus[u] = "200" /\ uerr[u] = {}
          /\ newpath[u] = OutTxt
    /\ \A u \in Ups \ (1..2) : upc[u] = "new"
    /\ OutTxt \in DOMAIN files
    /\ DOMAIN files \ {placed[u] : u \in 1..2} = {OutTxt}

\* out-1.txt
OutDash1Txt == <<"out", "-", "1", ".txt">>

\* C26, as stated: after two uploads for out.txt beside an existing
\* out.txt the directory holds out.txt and out-1.txt, and out-1.txt holds
\* the whole content of one of the uploads.
C26_OutDashOneTxt ==
    TwoUploadsForOutTxt
       => /\ OutTxt \in DOMAIN files
          /\ OutDash1Txt \in DOMAIN files
          /\ \E u \in 1..2 : files[OutDash1Txt] = WholeData(u)

\* C26, amended: after two uploads for out.txt beside an existing out.txt
\* the old file is untouched and the uploads are out.txt-1 and out.txt-2
\* (the suffix follows the whole name), each holding the whole content of
\* its own upload.
C26_OutTxtDashOne ==
    TwoUploadsForOutTxt
       => /\ files[OutTxt] = <<OldData>>
          /\ {placed[u] : u \in 1..2}
                = {OutTxt \o <<"-", "1">>, OutTxt \o <<"-", "2">>}
          /\ \A u \in 1..2 : files[placed[u]] = WholeData(u)

\* Both uploads carried a part and are in place.
C26_Witness ==
    /\ TwoUploadsForOutTxt
    /\ \A u \in 1..2 : Len(body[u].parts) >= 1

\* C27: an upload answered 400 or 500 is linked under no final name, and
\* the temporary file it created is still there.
C27_FailedUploadStaysTemp ==
    \A u \in Ups :
       (upc[u] = "done" /\ ustatus[u] \in {"400", "500"})
          => /\ placed[u] = <<>>
             /\ (fpath # Stdout /\ uerr[u] \cap {"multipart", "create"} = {})
                   => TempName(u) \in DOMAIN files

\* C28: with "@", an upload none of whose parts declares a filename is
\* linked under no final name, is not answered 200, and, unless it failed
\* before, ends with the missing-filename error.
C28_MissingFilenameFails ==
    \A u \in Ups :
       (/\ upc[u] = "done" /\ fpath = At /\ umethod[u] = "POST"
        /\ \A k \in 1..Len(body[u].parts) : body[u].parts[k] = <<>>)
          => /\ placed[u] = <<>>
             /\ ustatus[u] # "200"
             /\ (uerr[u] \cap {"multipart", "create"} = {})
                   => "filename missing" \in uerr[u]

\* C29: a request whose method the endpoint does not support, and which
\* the gate has not turned away with 503, is answered 405 (so the payload
\* is not sent and no upload is read).
C29_UnsupportedMethod405 ==
    \A r \in Reqs :
       (resp[r] \notin {"none", "503"} /\ ~Supported(method[r]))
          => resp[r] = "405"

\* C30: parseUserPass of the empty string is the empty user and password
\* with no error; of a string whose first colon has characters before it
\* and after it, the user before that colon and the password after it,
\* colons included, with no error; of any other string (no colon, colon
\* first, the first colon last) the empty user and password with
\* errInvalidUserPass.
C30_ParseUserPass ==
    cred # NoCred
       => LET s == flagUserPass
              first == {i \in 1..Len(s) :
                          s[i] = ":" /\ \A j \in 1..(i - 1) : s[j] # ":"}
          IN  IF s = <<>>
                THEN cred = [user |-> <<>>, pass |-> <<>>, err |-> "nil"]
                ELSE IF \E i \in first : 1 < i /\ i < Len(s)
                THEN /\ cred.err = "nil"
                     /\ cred.user # <<>> /\ cred.pass # <<>>
                     /\ \A j \in 1..Len(cred.user) : cred.user[j] # ":"
                     /\ cred.user \o <<":">> \o cred.pass = s
                ELSE cred = [user |-> <<>>, pass |-> <<>>,
                             err |-> "errInvalidUserPass"]

\* A password that holds a colon has been parsed.
C30_Witness ==
    /\ cred.err = "nil"
    /\ \E j \in 1..Len(cred.pass) : cred.pass[j] = ":"

----------------------------------------------------------------------------
\* Properties of the gate's critical sections

\* Requests that are inside the wrapped handler.
InHandler == {r \in Reqs : pc[r] = "handler"}

\* C31: the gate's mutex is held only inside the two short critical
\* sections (the test and decrement of the count, the test after the
\* handler): never while the wrapped handler runs, never in a step that
\* writes a response, be it the handler's or the gate's 503.  Whoever
\* holds the mutex can always take its next step, which releases it, so a
\* request in its handler never keeps another from being admitted or
\* rejected.
C31_NoLockAcrossHandler ==
    /\ [](\A r \in Reqs :
            /\ mu = r <=> pc[r] \in {"crit1", "crit2"}
            /\ (mu = r /\ Alive) =>
                  ENABLED (limitNReqsAdmit(r) \/ limitNReqsCheck(r)
                             \/ limitReqsAdmit(r)))
    /\ [](mu \in Reqs \cup {NoReq})
    /\ [][\A r \in Reqs :
            resp'[r] # resp[r] => (mu # r /\ mu' = mu)]_vars

\* two admitted requests are inside the handler at the same time, and
\* meanwhile a third one has been rejected
C31_Witness ==
    /\ Cardinality(InHandler) = 2
    /\ InHandler \subseteq Admitted
    /\ \E r \in Reqs : via[r] = "reject" /\ resp[r] = "503"
    /\ mu = NoReq

\* The budget the gate was built with.
Budget == IF variant = "limitReqs" THEN GateBudget ELSE RunBudget

\* C32: for a gate built with a budget N >= 1 the remaining count stays
\* within 0..N and N minus the count is the number of requests admitted so
\* far; the count never grows and is never set back, and whenever it
\* changes it was positive and goes down by exactly one, so the unsigned
\* count never wraps below zero.
C32_RemainingCount ==
    /\ [](Budget >= 1 =>
            /\ n \in 0..Budget
            /\ Budget - n = Cardinality(Admitted))
    /\ [][/\ n' <= n
          /\ n' # n => (n > 0 /\ n' = n - 1)]_vars

\* the budget is used up and a later request found the count at zero
C32_Witness ==
    /\ Budget = 2 /\ n = 0
    /\ Cardinality(Admitted) = 2
    /\ \E r \in Reqs : via[r] = "reject" /\ seen[r] = 0

----------------------------------------------------------------------------
\* Properties of the lifecycle of run()

\* srv.Shutdown has been called.
ShutdownCalled == gpc \in {"shutdown", "notify", "end"}

\* The lifecycle state, as a rank: 0 before the listener is open, 1
\* Listening, 2 Draining (Shutdown has been called), 3 Stopped (run has
\* returned).
Lifecycle ==
    IF mpc = "exit" THEN 3
    ELSE IF ShutdownCalled THEN 2
    ELSE IF mpc = "serve" THEN 1
    ELSE 0

\* C33: the lifecycle only moves forward, Listening, Draining, Stopped, and
\* never returns to Listening; while Draining or Stopped no connection is
\* accepted, so no request arrives and only requests accepted before can
\* still pass the gate; srv.Shutdown is called in one step only, out of the
\* select, whichever and however many of the three events are pending, and
\* never again; and a run whose listener did not fail returns only when the
\* serve loop has returned and, Shutdown having returned, waitConns is
\* closed.
C33_LifecycleOrder ==
    /\ [][/\ Lifecycle' >= Lifecycle
          /\ Lifecycle >= 2 => pc' = pc \/ \A r \in Reqs :
                                  pc[r] = "new" => pc'[r] = "new"
          /\ (ShutdownCalled' /\ ~ShutdownCalled) =>
                (gpc = "select" /\ gpc' = "shutdown" /\ cause = "none"
                   /\ cause' \in {"sig", "timeout", "done"})
          /\ ShutdownCalled => (ShutdownCalled' /\ cause' = cause)
          /\ (mpc' = "exit" /\ mpc # "exit" /\ ret' # "listen") =>
                (mpc = "wait" /\ gpc = "end" /\ waitConns)
          /\ (mpc' = "wait" /\ mpc # "wait") => ShutdownCalled
          /\ (gpc' = "notify" /\ gpc = "shutdown") => Active = {}]_vars
    /\ [](mpc = "exit" =>
            \/ ret = "listen" /\ ~ShutdownCalled
            \/ ret # "listen" /\ gpc = "end" /\ waitConns /\ Active = {})

\* the run stopped after a drain that the timeout started while a signal
\* and the exhaustion signal were pending too
C33_Witness ==
    /\ mpc = "exit" /\ ret = "nil"
    /\ cause = "timeout" /\ sig /\ done
    /\ fires = 1

----------------------------------------------------------------------------
\* Properties of the exit of main()

\* C34: in main() with limitReqs the receive "<-done" that ends main is
\* only ever met by the goroutine's "done <- true", which follows the
\* return of srv.Shutdown; so when the process exits every request handler
\* has returned, a signal arriving while the request that used up the
\* budget is still in flight included.
C34_ExitAfterShutdown ==
    /\ [][(variant = "limitReqs" /\ mpc' = "exit" /\ mpc # "exit") =>
            (gpc = "notify" /\ gpc' = "end")]_vars
    /\ []((variant = "limitReqs" /\ mpc = "exit") => Active = {})

\* C35: in run() of offer.go, whenever run has returned with a temporary
\* payload and without -k, whether after a clean drain or with the error of
\* ListenAndServe, the temporary file is gone (unless os.Remove itself
\* failed, which run reports as its error).
C35_TempRemovedOnEveryReturn ==
    (rrev = "offer" /\ mpc = "exit" /\ f.isTemp /\ ~flagKeep
       /\ ret # "remove") => f.path \notin disk

----------------------------------------------------------------------------
\* Properties of the handler chain of run()

\* Requests the payload was sent to.
Transferred == {r \in Reqs : rpath[r] = "/" /\ resp[r] = "200"}

\* C36: limitNReqs counts every request it lets through, whatever its path
\* and whatever the handler answers (a checksum, 404, 500): the step that
\* admits a request takes one unit off the count, every request that
\* reached a handler behind a limited gate was counted, and when as many
\* admitted requests as the budget have finished the exhaustion signal has
\* been issued, the payload transferred or not.
C36_EveryPathCounts ==
    /\ [](Budget >= 1 =>
            /\ n = Budget - Cardinality(Admitted)
            /\ \A r \in Reqs :
                  resp[r] \in {"200", "404", "500"} => via[r] = "admit"
            /\ Cardinality({r \in Admitted : pc[r] = "done"}) = Budget
                  => (done /\ fires = 1))
    /\ [][\A r \in Reqs :
            (via'[r] = "admit" /\ via[r] # "admit") =>
                (n' = n - 1 /\ rpath'[r] = rpath[r])]_vars

\* a budget of two was used up by a 404 and a failed checksum, and the
\* server shut down for it without the payload ever being sent
C36_Witness ==
    /\ Budget = 2
    /\ \E r, q \in Reqs :
          /\ rpath[r] = "/checksums" /\ resp[r] = "404" /\ via[r] = "admit"
          /\ rpath[q] = "/checksums/md5" /\ resp[q] = "500"
          /\ via[q] = "admit"
    /\ Transferred = {}
    /\ cause = "done" /\ mpc = "exit"

\* The requests that carry exactly the configured user and password.
Matching ==
    {r \in Reqs : rcred[r] = [user |-> cred.user, pass |-> cred.pass,
                              ok |-> TRUE]}

\* C37: with credentials configured, only requests whose user and password
\* both match reach the gate and the handlers behind it; any other request
\* that has passed basicAuth has been answered 401, was never seen by the
\* gate, took nothing off the count and did not issue the exhaustion
\* signal; so as long as no matching request has arrived the count is the
\* whole budget, the signal is not issued and only a signal from outside
\* can stop the server.
C37_UnauthorizedNeverCounts ==
    ~AuthOff =>
        /\ \A r \in Reqs \ Matching :
              /\ via[r] = "none" /\ seen[r] = -1 /\ firer # r
              /\ pc[r] \in {"new", "auth", "done"}
              /\ pc[r] = "done" => resp[r] = "401"
        /\ \A r \in Matching : resp[r] # "401"
        /\ n = Budget - Cardinality(Admitted \cap Matching)
        /\ (\A r \in Reqs : pc[r] # "new" => r \notin Matching) =>
              (n = Budget /\ fires = 0 /\ ~done /\ cause \in {"none", "sig"})

\* two requests, one with the right user and a wrong password and one
\* without credentials, were answered 401 and the budget of one is intact
C37_Witness ==
    /\ ~AuthOff /\ Budget = 1 /\ n = 1
    /\ \E r, q \in Reqs :
          /\ rcred[r].ok /\ rcred[r].user = cred.user
          /\ rcred[r].pass # cred.pass
          /\ resp[r] = "401"
          /\ ~rcred[q].ok /\ resp[q] = "401"
    /\ Listening

----------------------------------------------------------------------------
\* Properties of the resolver on a file that changes

\* C38: offerFile never returns errTooBig: a named file that holds more
\* bytes than the threshold when it is read, having grown since its size
\* was taken, is still resolved and the start of the server is not given
\* up.
C38_NamedFileNeverTooBig ==
    (rrev = "offer" /\ caller = "file") =>
        (rerr # "errTooBig" /\ rpc # "failed")

\* C39: with a destination other than standard output whose name is known
\* (given on the command line, or with "@" declared by a part), an upload
\* that has been answered 200 is linked under a final name and the file of
\* that name holds the bytes of all its parts: the client is told OK only
\* when safeRename has succeeded.
C39_OkMeansStored ==
    \A u \in Ups :
       (/\ fpath # Stdout /\ upc[u] = "done" /\ ustatus[u] = "200"
        /\ fpath = At => partfname[u] # <<>>)
          => /\ placed[u] # <<>>
             /\ placed[u] \in DOMAIN files
             /\ files[placed[u]] = WholeData(u)

\* The uploads that safeRename has linked under a final name.
Linked == {u \in Ups : placed[u] # <<>>}

\* C40: uploads that run at the same time, to the same destination name
\* included, are linked under names that differ from one another; the file
\* under each of these names holds bytes of that upload only, in order (all
\* of them when the upload was answered 200); and no step, in whatever
\* order the links and removals of the uploads come, changes or removes a
\* file that exists under a final name, be it another upload's or one that
\* was there before.
C40_ConcurrentUploadsDistinct ==
    /\ [](\A u \in Linked :
            /\ \A v \in Linked : u # v => placed[u] # placed[v]
            /\ placed[u] \in DOMAIN files \ Temps
            /\ \A k \in 1..Len(files[placed[u]]) :
                  files[placed[u]][k] = Data(u, k)
            /\ ustatus[u] = "200" => files[placed[u]] = WholeData(u))
    /\ [](\A x \in DOMAIN files \ (Temps \cup {placed[u] : u \in Linked}) :
            files[x] = <<OldData>>)
    /\ [][\A x \in DOMAIN files \ Temps :
            x \in DOMAIN files' /\ files'[x] = files[x]]_vars

\* two uploads for out.txt, which was there before, are both linked and
\* neither has removed its temporary file yet
C40_Witness ==
    /\ fpath = OutTxt
    /\ OutTxt \in DOMAIN files /\ files[OutTxt] = <<OldData>>
    /\ upc = [u \in Ups |-> "remove"]
    /\ \A u \in Ups : ustatus[u] = "200" /\ Len(body[u].parts) = 1
    /\ {placed[u] : u \in Ups} = {Candidate(OutTxt, 1), Candidate(OutTxt, 2)}

====
